---- MODULE Spec2Model ----
(***************************************************************************)
(* State-machine model of the DarkFleet AIS pipeline:                      *)
(*   - the server fan-out ConnectionManager / WebSocketServer and the      *)
(*     DarkFleetServer dispatcher (src/server/src/...),                    *)
(*   - the collettore MessageProcessor, its dedup store and its two-pool   *)
(*     output server (src/collettore/src/...).                             *)
(* Every coroutine is cut at its awaits: one action per synchronous        *)
(* segment between two suspension points of the asyncio event loop.        *)
(***************************************************************************)
EXTENDS Integers, Sequences, FiniteSets, TLC

(***************************************************************************)
(* Bounds of the model.                                                    *)
(***************************************************************************)
NumWS == 3          \* downstream websockets of the server, 1..NumWS
NumMsgs == 2        \* messages handed to the server dispatcher
MaxTime == 2        \* last value of the wall clock (time.time(), in ticks)
FanWS == 2          \* websockets that subscribe while messages are fanned out
DropMsgs == 1       \* messages dispatched in the progress specification

WS == 1..NumWS
Msgs == 1..NumMsgs

\* Client addresses: odd websockets connect from address 1, even ones from 2.
IPs == {1, 2}
ClientIp(w) == IF w % 2 = 1 THEN 1 ELSE 2
NoIp == 0

(***************************************************************************)
(* ConnectionManager.__init__ parameters (websocket_server.py:16-25).      *)
(* The defaults are 100 / None / 10 / 5 / 60; the model runs the same      *)
(* code with small values so that every limit is reached.                  *)
(***************************************************************************)
max_clients == 2
max_clients_geo == 2
max_clients_geo_is_none == FALSE
max_connections_per_ip == 1
connection_rate_limit == 1
connection_rate_window == 1

Pools == {"all", "watchlist", "geo", "geo_watchlist"}
GeoPools == {"geo", "geo_watchlist"}

\* Bounding boxes a geo subscriber may ask for (integer degrees):
\* a plain box and the antimeridian-crossing box of seed scenario S4.
NoBox == [min_lat |-> 0, max_lat |-> 0, min_lon |-> 0, max_lon |-> 0]
Boxes == { [min_lat |-> -10, max_lat |-> 10, min_lon |-> -20, max_lon |-> 20],
           [min_lat |-> -10, max_lat |-> 10, min_lon |-> 170, max_lon |-> -170] }

\* Boxes the geo endpoints refuse: min_lat = max_lat, and min_lat > max_lat.
InvalidBoxes ==
    { [min_lat |-> 5, max_lat |-> 5, min_lon |-> -20, max_lon |-> 20],
      [min_lat |-> 10, max_lat |-> -10, min_lon |-> -20, max_lon |-> 20] }

\* What the model keeps of a normalized message: whether the watchlist
\* matches it, and its position when it has one.
Positions == { [has_pos |-> FALSE, lat |-> 0, lon |-> 0],
               [has_pos |-> TRUE, lat |-> 0, lon |-> 175] }
\* The positions of seed scenario S4 and of points off the boxes' latitudes.
GeoPositions == Positions \cup
    { [has_pos |-> TRUE, lat |-> 0, lon |-> -175],
      [has_pos |-> TRUE, lat |-> 0, lon |-> 0],
      [has_pos |-> TRUE, lat |-> 10, lon |-> 170],
      [has_pos |-> TRUE, lat |-> 11, lon |-> 175] }
\* the arguments of a handler that is not running
NoReq == [pool |-> "all", box |-> NoBox]
NoMsg == [match |-> FALSE, has_pos |-> FALSE, lat |-> 0, lon |-> 0]

VARIABLES
    \* ---- server ConnectionManager (websocket_server.py:27-45)
    all_connections,            \* set of websockets
    watchlist_connections,      \* set of websockets
    geo_connections,            \* websocket -> bounding box
    geo_watchlist_connections,  \* websocket -> bounding box
    connection_attempts,        \* ip -> sequence of timestamps
    ip_connections,             \* ip -> set of websockets
    ip_entries,                 \* the keys of the defaultdict _ip_connections
    websocket_ip,               \* websocket -> ip (NoIp: no entry)
    stats,                      \* the manager's counters
    \* ---- environment of the server
    now,                        \* time.time()
    hpc,                        \* handler coroutine of each websocket
    hreq,                       \* the pool and box each websocket asked for
    health,                     \* what a send to the websocket does
    sendq,                      \* websocket -> pending _safe_send calls, oldest first
    delivered,                  \* websocket -> messages whose send_json returned
    \* ---- DarkFleetServer dispatcher (main.py:132-155)
    tpc,                        \* _process_message task of each message
    msgs,                       \* the message each task was spawned with
    nextMsg,                    \* number of the next message to arrive
    messages_processed,         \* DarkFleetServer.stats['messages_processed']
    updates,                    \* per message and pool: the dict handed to broadcast()
    \* ---- collettore output ConnectionManager (output/websocket_server.py:18-27)
    raw_connections,            \* set of websockets
    filtered_connections,       \* set of websockets
    out_stats,                  \* the output manager's counters
    \* ---- collettore MessageProcessor and RedisCache
    proc_stats,                 \* MessageProcessor.stats
    redis_stats,                \* the keys stats:unique and stats:duplicates
    dedup,                      \* the live dedup:<hash> keys, each with its expiry
    vessels,                    \* mmsi -> the vessel:<mmsi> hash, count and sources
    active_vessels,             \* the set active_vessels
    \* ---- environment of the collettore
    cnow,                       \* time.time(), in seconds
    chpc,                       \* handler coroutine of each websocket
    chreq,                      \* the stream each websocket asked for
    chealth,                    \* what a send to the websocket does
    csendq,                     \* websocket -> pending _safe_send calls, oldest first
    cpc,                        \* process_message task of each message
    cmsgs,                      \* the message each task was spawned with
    cnext,                      \* number of the next message to arrive
    cbarrier,                   \* per message: the last task created before its sends
    cwake,                      \* tasks whose gather returned, in that order
    \* ---- what happened to each message (history, read by the claims only)
    class,                      \* "unique" or "duplicate" once the dedup check ran
    plog,                       \* per message: the steps of process_message, in order
    dedup_order,                \* the messages in the order of their dedup checks
    \* ---- calls of pure functions
    pib,                        \* the calls of is_point_in_box: arguments and result
    \* ---- server WatchlistManager
    mmsi_cache,                 \* mmsi -> list_id
    imo_cache,                  \* imo -> list_id
    lists_cache,                \* list_id -> list_name and color
    last_sync_time,             \* time of the last successful sync, NoTime for None
    spc,                        \* sync_from_api call -> the await it is suspended at
    fetched,                    \* sync_from_api call -> what fetch_all returned
    report,                     \* sync_from_api call -> the dict it returned
    db,                         \* the versions upserted, and the rows of the tables lists and vessels
    lookup,                     \* the last check_message: message and returned match
    \* ---- server SatelliteClient
    apc,                        \* where start() is suspended, "idle" before, "exited" after
    stop_pc,                    \* where stop() is suspended
    reconnect,                  \* the auto-reconnect setting
    running,                    \* SatelliteClient.running
    connected,                  \* SatelliteClient.connected
    reconnect_attempts,         \* SatelliteClient.reconnect_attempts
    wait_time,                  \* the wait of the current or the last backoff sleep
    writer,                     \* the socket self.reader and self.writer refer to, 0 for None
    sock,                       \* socket -> "unused", "open" or "closed"
    lines_read,                 \* stats['messages_received']
    \* ---- the runtimes DarkFleetServer and CollettoreServer
    shutdown_requested,         \* runtime -> its shutdown_requested flag
    run_pc,                     \* runtime -> "none", "started", where shutdown() is suspended, "done"
    task,                       \* long-running task -> "none", "sleeping", "syncing", "cancelled", "exited"
    \* ---- server NMEAParser
    fragment_buffer,            \* key -> the fragments held and the entry's timestamp
    parser_stats,               \* NMEAParser.stats, the counters of fragments and invalid sentences
    ptime,                      \* time(), in seconds
    fed,                        \* the sentence of the last call of parse, <<>> before the first
    calls,                      \* the number of calls of parse
    handed,                     \* what the last parse passed to decode, <<>> when it returned before
    last_arrival,               \* key -> when a fragment was last buffered under it (for the claims only)
    \* ---- server control channel of a subscriber's handler
    inbound,                    \* the last frame a handler received: websocket and kind
    frames,                     \* the number of frames received
    pongs,                      \* websocket -> the pong frames sent to it
    \* ---- server WebSocketServer.broadcast_track_update, the event it builds
    track_event,                \* the last call: the message's keys, the match and the event
    \* ---- server WatchlistManager, pushes to the provider
    scheduled,                  \* the _push_vessel_update tasks the last check_message created
    \* ---- collettore SourceWebSocketClient (ingestion/websocket_client.py:13-41)
    src_pc,                     \* where start() is: idle, connecting, backoff, receiving, closing, retry_sleep, done
    src_reconnect,              \* self.reconnect
    src_max_attempts,           \* self.reconnect_max_attempts
    src_running,                \* self.running
    src_connected,              \* self.connected
    src_reconnect_attempts,     \* self.reconnect_attempts
    src_websocket,              \* self.websocket: none, open, closed_ok, closed_error
    src_stats,                  \* messages_received, connection_count, reconnect_count
    src_failed,                 \* connect() calls that returned False since the last True
    \* ---- server WatchlistManager.load_from_database after a restart
    lpc,                        \* where load_from_database is: idle, get_all_lists, loaded
    \* ---- DarkFleetServer._save_detection (main.py:157-169)
    detections,                 \* per message: the dict handed to upsert_detection
    write_failed                \* per message: upsert_detection raised

connVars == <<all_connections, watchlist_connections, geo_connections,
              geo_watchlist_connections, ip_connections, ip_entries,
              websocket_ip>>
serverVars == <<all_connections, watchlist_connections, geo_connections,
                geo_watchlist_connections, connection_attempts, ip_connections,
                ip_entries, websocket_ip, stats, now, hpc, hreq, health, sendq, delivered,
                tpc, msgs, nextMsg, messages_processed, updates>>

collVars == <<raw_connections, filtered_connections, out_stats, proc_stats,
              redis_stats, dedup, vessels, active_vessels, cnow, chpc, chreq,
              chealth, csendq, cpc, cmsgs, cnext, cbarrier, cwake, class,
              plog, dedup_order>>

\* what a step of the server leaves alone, and what a step of the collettore does
pureVars == <<pib>>

cacheVars == <<mmsi_cache, imo_cache, lists_cache, last_sync_time>>
watchVars == <<cacheVars, spc, fetched, report, db, lookup>>
runVars == <<shutdown_requested, run_pc, task>>
nmeaVars == <<fragment_buffer, parser_stats, ptime, fed, calls, handed, last_arrival>>
ctlVars == <<inbound, frames, pongs>>
eventVars == <<track_event>>
pushVars == <<scheduled>>
srcVars == <<src_pc, src_reconnect, src_max_attempts, src_running, src_connected, src_reconnect_attempts, src_websocket, src_stats, src_failed>>
loadVars == <<lpc>>
detVars == <<detections, write_failed>>
satVars == <<apc, stop_pc, reconnect, running, connected, reconnect_attempts,
             wait_time, writer, sock, lines_read>>

notServer == <<collVars, pureVars, watchVars, satVars, runVars, nmeaVars, ctlVars, eventVars, pushVars, srcVars, loadVars, detVars>>
notColl == <<serverVars, pureVars, watchVars, satVars, runVars, nmeaVars, ctlVars, eventVars, pushVars, srcVars, loadVars, detVars>>
notPure == <<serverVars, collVars, watchVars, satVars, runVars, nmeaVars, ctlVars, eventVars, pushVars, srcVars, loadVars, detVars>>
notWatch == <<serverVars, collVars, pureVars, satVars, runVars, nmeaVars, ctlVars, eventVars, pushVars, srcVars, loadVars, detVars>>
notSat == <<serverVars, collVars, pureVars, watchVars, runVars, nmeaVars, ctlVars, eventVars, pushVars, srcVars, loadVars, detVars>>
notRun == <<serverVars, collVars, pureVars, watchVars, satVars, nmeaVars, ctlVars, eventVars, pushVars, srcVars, loadVars, detVars>>
notNmea == <<serverVars, collVars, pureVars, watchVars, satVars, runVars, ctlVars, eventVars, pushVars, srcVars, loadVars, detVars>>
notCtl == <<serverVars, collVars, pureVars, watchVars, satVars, runVars, nmeaVars, eventVars, pushVars, srcVars, loadVars, detVars>>
notEvent == <<serverVars, collVars, pureVars, watchVars, satVars, runVars, nmeaVars, ctlVars, pushVars, srcVars, loadVars, detVars>>
notPush == <<serverVars, collVars, pureVars, watchVars, satVars, runVars, nmeaVars, ctlVars, eventVars, srcVars, loadVars, detVars>>
notSrc == <<serverVars, collVars, pureVars, watchVars, satVars, runVars, nmeaVars, ctlVars, eventVars, pushVars, loadVars, detVars>>
notLoad == <<serverVars, collVars, pureVars, watchVars, satVars, runVars, nmeaVars, ctlVars, eventVars, pushVars, srcVars, detVars>>
notDet == <<serverVars, collVars, pureVars, watchVars, satVars, runVars, nmeaVars, ctlVars, eventVars, pushVars, srcVars, loadVars>>

vars == <<serverVars, collVars, pureVars, watchVars, satVars, runVars, nmeaVars, ctlVars, eventVars, pushVars, srcVars, loadVars, detVars>>

(***************************************************************************)
(* Helpers.                                                                *)
(***************************************************************************)
InSeq(x, s) == \E i \in 1..Len(s) : s[i] = x

\* The pool collection named by a pool tag, as the set of its websockets
\* (connect / disconnect / broadcast select it with the same if-chain).
PoolMembers(pool) ==
    CASE pool = "all" -> all_connections
      [] pool = "watchlist" -> watchlist_connections
      [] pool = "geo" -> DOMAIN geo_connections
      [] pool = "geo_watchlist" -> DOMAIN geo_watchlist_connections

AllMembers == all_connections \cup watchlist_connections
                \cup DOMAIN geo_connections \cup DOMAIN geo_watchlist_connections

\* max_limit of connect(): max_clients, or max_clients_geo which may be None.
PoolHasLimit(pool) == pool \notin GeoPools \/ ~max_clients_geo_is_none
PoolLimit(pool) == IF pool \in GeoPools THEN max_clients_geo ELSE max_clients

\* is_point_in_box treating a box with min_lon > max_lon like any other
is_point_in_box_no_wrap(lat, lon, box) ==
    IF box = NoBox THEN FALSE
    ELSE IF ~(box.min_lat <= lat /\ lat <= box.max_lat) THEN FALSE
    ELSE box.min_lon <= lon /\ lon <= box.max_lon

\* is_point_in_box with the edges of a wrapping box left out
is_point_in_box_open_wrap(lat, lon, box) ==
    IF box = NoBox THEN FALSE
    ELSE IF ~(box.min_lat <= lat /\ lat <= box.max_lat) THEN FALSE
    ELSE IF box.min_lon <= box.max_lon
         THEN box.min_lon <= lon /\ lon <= box.max_lon
         ELSE lon > box.min_lon \/ lon < box.max_lon

\* ConnectionManager.is_point_in_box
is_point_in_box(lat, lon, box) ==
    IF box = NoBox THEN FALSE
    ELSE IF ~(box.min_lat <= lat /\ lat <= box.max_lat) THEN FALSE
    ELSE IF box.min_lon <= box.max_lon
         THEN box.min_lon <= lon /\ lon <= box.max_lon
         ELSE lon >= box.min_lon \/ lon <= box.max_lon

(***************************************************************************)
(* ConnectionManager: admission (websocket_server.py:47-145).              *)
(***************************************************************************)
\* _check_rate_limit, line 60-63: the attempts still inside the window
PrunedAttempts(ip) ==
    SelectSeq(connection_attempts[ip], LAMBDA ts : now - ts < connection_rate_window)

\* _check_rate_limit, line 50
CapReached(ip) == Cardinality(ip_connections[ip]) >= max_connections_per_ip

\* the rate test with > in place of >=
RateExceeded_above(ip) == Len(PrunedAttempts(ip)) > connection_rate_limit

\* _check_rate_limit, line 65
RateExceeded(ip) == Len(PrunedAttempts(ip)) >= connection_rate_limit

\* connect, line 111
PoolFull(pool) ==
    PoolHasLimit(pool) /\ Cardinality(PoolMembers(pool)) >= PoolLimit(pool)

\* _track_connection
track_connection(w, ip) ==
    /\ ip_connections' = [ip_connections EXCEPT ![ip] = @ \cup {w}]
    /\ ip_entries' = ip_entries \cup {ip}
    /\ websocket_ip' = [websocket_ip EXCEPT ![w] = ip]

\* _untrack_connection without the discard: the address keeps the slot
untrack_connection_keeps_slot(w) ==
    /\ websocket_ip' = [websocket_ip EXCEPT ![w] = NoIp]
    /\ ip_connections' = ip_connections
    /\ ip_entries' = ip_entries

\* _untrack_connection: pop the websocket's ip, discard it from that ip's
\* set, and delete the set when it is left empty
untrack_connection(w) ==
    /\ websocket_ip' = [websocket_ip EXCEPT ![w] = NoIp]
    /\ ip_connections' =
         IF websocket_ip[w] # NoIp /\ w \in ip_connections[websocket_ip[w]]
         THEN [ip_connections EXCEPT ![websocket_ip[w]] = @ \ {w}]
         ELSE ip_connections
    /\ ip_entries' =
         IF /\ websocket_ip[w] # NoIp
            /\ w \in ip_connections[websocket_ip[w]]
            /\ ip_connections[websocket_ip[w]] \ {w} = {}
         THEN ip_entries \ {websocket_ip[w]}
         ELSE ip_entries

\* a dict without one key
DropKey(f, w) == [x \in DOMAIN f \ {w} |-> f[x]]

\* disconnect(websocket, pool): remove from the named pool, then untrack
disconnect(w, pool) ==
    /\ all_connections' =
         IF pool = "all" THEN all_connections \ {w} ELSE all_connections
    /\ watchlist_connections' =
         IF pool = "watchlist" THEN watchlist_connections \ {w}
         ELSE watchlist_connections
    /\ geo_connections' =
         IF pool = "geo" THEN DropKey(geo_connections, w) ELSE geo_connections
    /\ geo_watchlist_connections' =
         IF pool = "geo_watchlist" THEN DropKey(geo_watchlist_connections, w)
         ELSE geo_watchlist_connections
    /\ untrack_connection(w)

\* the endpoint test with > in place of >=
InvalidBox_above(pool, box) == pool \in GeoPools /\ box.min_lat > box.max_lat

\* websocket_geo_endpoint / websocket_geo_watchlist_endpoint: the test made
\* on the query parameters before the handler is called
InvalidBox(pool, box) == pool \in GeoPools /\ box.min_lat >= box.max_lat

\* The endpoint, then connect() up to its suspension: the bounding-box test
\* of the geo endpoints, _check_rate_limit, the pool limit, and the
\* coroutine suspends in websocket.accept().  A refused websocket is closed
\* (by the endpoint, or by handle_*_client on a False return) and hpc keeps
\* the place where it was refused.
Connect(w, pool, box) ==
    /\ hpc[w] = "new"
    /\ hreq' = [hreq EXCEPT ![w] = [pool |-> pool, box |-> box]]
    /\ LET ip == ClientIp(w) IN
       IF InvalidBox(pool, box)
       THEN /\ hpc' = [hpc EXCEPT ![w] = "refused_box"]
            /\ UNCHANGED <<stats, connection_attempts, ip_entries>>
       ELSE IF CapReached(ip)
       THEN /\ stats' = [stats EXCEPT !.connections_rate_limited = @ + 1]
            /\ connection_attempts' = connection_attempts
            /\ ip_entries' = ip_entries \cup {ip}
            /\ hpc' = [hpc EXCEPT ![w] = "refused_ip_cap"]
       ELSE IF RateExceeded(ip)
       THEN /\ stats' = [stats EXCEPT !.connections_rate_limited = @ + 1]
            /\ connection_attempts' =
                 [connection_attempts EXCEPT ![ip] = PrunedAttempts(ip)]
            /\ ip_entries' = ip_entries \cup {ip}
            /\ hpc' = [hpc EXCEPT ![w] = "refused_rate"]
       ELSE /\ stats' = stats
            /\ connection_attempts' =
                 [connection_attempts EXCEPT ![ip] = Append(PrunedAttempts(ip), now)]
            /\ ip_entries' = ip_entries \cup {ip}
            /\ hpc' = [hpc EXCEPT ![w] =
                         IF PoolFull(pool) THEN "refused_pool" ELSE "accepting"]
    /\ UNCHANGED notServer
    /\ UNCHANGED updates
    /\ UNCHANGED <<all_connections, watchlist_connections, geo_connections,
                   geo_watchlist_connections, ip_connections, websocket_ip,
                   now, health, sendq, delivered,
                   tpc, msgs, nextMsg, messages_processed>>

\* the per-pool lifetime counter of connect(), lines 129-136
TotalKey(pool) ==
    CASE pool = "all" -> "total_connections"
      [] pool = "watchlist" -> "total_watchlist_connections"
      [] pool = "geo" -> "total_geo_connections"
      [] pool = "geo_watchlist" -> "total_geo_watchlist_connections"

\* connect(), second segment: accept() returned; track, add to the pool, count.
ConnectAccepted(w) ==
    /\ hpc[w] = "accepting"
    /\ LET pool == hreq[w].pool IN
       /\ track_connection(w, ClientIp(w))
       /\ all_connections' =
            IF pool = "all" THEN all_connections \cup {w} ELSE all_connections
       /\ watchlist_connections' =
            IF pool = "watchlist" THEN watchlist_connections \cup {w}
            ELSE watchlist_connections
       /\ geo_connections' =
            IF pool = "geo"
            THEN [x \in DOMAIN geo_connections \cup {w} |->
                    IF x = w THEN hreq[w].box ELSE geo_connections[x]]
            ELSE geo_connections
       /\ geo_watchlist_connections' =
            IF pool = "geo_watchlist"
            THEN [x \in DOMAIN geo_watchlist_connections \cup {w} |->
                    IF x = w THEN hreq[w].box ELSE geo_watchlist_connections[x]]
            ELSE geo_watchlist_connections
       /\ stats' = [stats EXCEPT ![TotalKey(pool)] = @ + 1]
    /\ hpc' = [hpc EXCEPT ![w] = "open"]
    /\ UNCHANGED notServer
    /\ UNCHANGED updates
    /\ UNCHANGED <<connection_attempts, now, hreq, health, sendq, delivered,
                   tpc, msgs, nextMsg, messages_processed>>

\* websocket.accept() raises (the peer went away during the handshake): the
\* exception leaves connect() before anything is recorded.
AcceptFailed(w) ==
    /\ hpc[w] = "accepting"
    /\ hpc' = [hpc EXCEPT ![w] = "closed"]
    /\ hreq' = [hreq EXCEPT ![w] = NoReq]
    /\ health' = [health EXCEPT ![w] = "broken"]
    /\ UNCHANGED notServer
    /\ UNCHANGED updates
    /\ UNCHANGED <<connVars, connection_attempts, stats, now, sendq,
                   delivered, tpc, msgs, nextMsg, messages_processed>>

\* The handler's receive loop ends (the client closed, or the connection
\* broke): the finally block runs disconnect(websocket, pool).
HandlerExit(w) ==
    /\ hpc[w] = "open"
    /\ health[w] # "blocked"
    /\ disconnect(w, hreq[w].pool)
    /\ hpc' = [hpc EXCEPT ![w] = "closed"]
    /\ hreq' = [hreq EXCEPT ![w] = NoReq]
    /\ health' = [health EXCEPT ![w] = "broken"]
    /\ UNCHANGED notServer
    /\ UNCHANGED updates
    /\ UNCHANGED <<connection_attempts, stats, now, sendq, delivered,
                   tpc, msgs, nextMsg, messages_processed>>

\* The peer of an open websocket breaks (every later send raises) or stops
\* reading without closing (every later send stays suspended).
ClientFault(w, kind) ==
    /\ hpc[w] = "open"
    /\ health[w] = "ok"
    /\ health' = [health EXCEPT ![w] = kind]
    /\ UNCHANGED notServer
    /\ UNCHANGED updates
    /\ UNCHANGED <<connVars, connection_attempts, stats, now, hpc, hreq, sendq,
                   delivered, tpc, msgs, nextMsg, messages_processed>>

\* time.time() advances
Tick ==
    /\ now < MaxTime
    /\ now' = now + 1
    /\ UNCHANGED notServer
    /\ UNCHANGED updates
    /\ UNCHANGED <<connVars, connection_attempts, stats, hpc, hreq, health,
                   sendq, delivered, tpc, msgs, nextMsg, messages_processed>>

(***************************************************************************)
(* Fan-out: WebSocketServer.broadcast_track_update, ConnectionManager.     *)
(* broadcast and _safe_send (websocket_server.py:202-239, 430-471).        *)
(***************************************************************************)
\* the order in which broadcast_track_update visits the pools
StageSeq == <<"all", "watchlist", "geo", "geo_watchlist">>

\* Recipients with the watchlist pools served whether or not there is a match
Recipients_unmatched(pool, msg) ==
    CASE pool = "all" -> all_connections
      [] pool = "watchlist" -> watchlist_connections
      [] pool = "geo" ->
           IF msg.has_pos
           THEN {w \in DOMAIN geo_connections :
                    is_point_in_box(msg.lat, msg.lon, geo_connections[w])}
           ELSE {}
      [] pool = "geo_watchlist" ->
           IF msg.has_pos
           THEN {w \in DOMAIN geo_watchlist_connections :
                    is_point_in_box(msg.lat, msg.lon, geo_watchlist_connections[w])}
           ELSE {}

\* The _safe_send calls one broadcast creates: the guard of
\* broadcast_track_update for the pool, then broadcast()'s snapshot of the
\* pool, filtered by is_point_in_box for the geo pools.
Recipients(pool, msg) ==
    CASE pool = "all" -> all_connections
      [] pool = "watchlist" ->
           IF msg.match THEN watchlist_connections ELSE {}
      [] pool = "geo" ->
           IF msg.has_pos
           THEN {w \in DOMAIN geo_connections :
                    is_point_in_box(msg.lat, msg.lon, geo_connections[w])}
           ELSE {}
      [] pool = "geo_watchlist" ->
           IF msg.match /\ msg.has_pos
           THEN {w \in DOMAIN geo_watchlist_connections :
                    is_point_in_box(msg.lat, msg.lon, geo_watchlist_connections[w])}
           ELSE {}

\* no dict was handed to broadcast()
NoUpdate == [type |-> "none", watchlist |-> FALSE, list_id |-> "absent"]

\* match.get('list_id') of a watchlist match
MatchListId == "list_id of the match"

\* The dict broadcast_track_update hands to broadcast() for the pool:
\* track_update, or a copy of it with the key list_id.
Update(pool, msg) ==
    [type |-> "track_update",
     watchlist |-> msg.match,
     list_id |-> IF pool \in {"watchlist", "geo_watchlist"}
                 THEN MatchListId ELSE "absent"]

\* The first pool, from position i on, whose gather has a task to wait for;
\* a broadcast with nothing to send returns without suspending.
FirstStage(i, msg) ==
    LET js == {j \in i..Len(StageSeq) : Recipients(StageSeq[j], msg) # {}} IN
    IF js = {} THEN Len(StageSeq) + 1
    ELSE CHOOSE j \in js : \A k \in js : j <= k

StageIndex(pool) == CHOOSE j \in 1..Len(StageSeq) : StageSeq[j] = pool

\* broadcast_track_update from pool position i up to its next suspension:
\* the gather of the first non-empty broadcast starts one _safe_send per
\* recipient, and the task waits for all of them.
broadcast_track_update(m, i) ==
    LET j == FirstStage(i, msgs[m]) IN
    IF j > Len(StageSeq)
    THEN /\ tpc' = [tpc EXCEPT ![m] = "done"]
         /\ sendq' = sendq
         /\ updates' = updates
    ELSE /\ tpc' = [tpc EXCEPT ![m] = StageSeq[j]]
         /\ updates' = [updates EXCEPT ![m][StageSeq[j]] =
                          Update(StageSeq[j], msgs[m])]
         /\ sendq' = [w \in WS |->
                        IF w \in Recipients(StageSeq[j], msgs[m])
                        THEN Append(sendq[w], m) ELSE sendq[w]]

\* the _safe_send calls of message m that have not finished
PendingSends(m) == {w \in WS : InSeq(m, sendq[w])}

\* _on_satellite_message: the parsed message is handed to a new task
\* (asyncio.create_task); the task has not run yet.
OnSatelliteMessage(match, pos) ==
    /\ nextMsg <= NumMsgs
    /\ msgs' = [msgs EXCEPT ![nextMsg] =
                  [match |-> match, has_pos |-> pos.has_pos,
                   lat |-> pos.lat, lon |-> pos.lon]]
    /\ tpc' = [tpc EXCEPT ![nextMsg] = "spawned"]
    /\ nextMsg' = nextMsg + 1
    /\ UNCHANGED notServer
    /\ UNCHANGED updates
    /\ UNCHANGED <<connVars, connection_attempts, stats, now, hpc, hreq, health,
                   sendq, delivered, messages_processed>>

\* Python's None, and a value that is present
None == [present |-> FALSE, value |-> 0]
Some(x) == [present |-> TRUE, value |-> x]

\* no dict was handed to upsert_detection
NoDetection == [latitude |-> None, longitude |-> None, raw_data |-> NoMsg,
                built |-> FALSE]

\* message.get(key) on a message of NMEAParser.parse, which stores the
\* position under the keys 'lat' and 'lon' (nmea_parser.py:210-211) and
\* never sets a key 'latitude' or 'longitude'
message_get(message, key) ==
    CASE key = "lat" -> IF message.has_pos THEN Some(message.lat) ELSE None
      [] key = "lon" -> IF message.has_pos THEN Some(message.lon) ELSE None
      [] OTHER -> None

\* _save_detection: the dict it builds for upsert_detection
detection(message) ==
    [latitude |-> message_get(message, "latitude"),
     longitude |-> message_get(message, "longitude"),
     raw_data |-> message, built |-> TRUE]

\* _process_message, first segment.  The event loop starts tasks in the
\* order they were created.  A matched message builds its detection and
\* awaits upsert_detection in _save_detection before the fan-out; an
\* unmatched one goes straight to the fan-out.
ProcessMessage(m) ==
    /\ tpc[m] = "spawned"
    /\ \A k \in Msgs : k < m => tpc[k] # "spawned"
    /\ messages_processed' = messages_processed + 1
    /\ IF msgs[m].match
       THEN /\ tpc' = [tpc EXCEPT ![m] = "saving"]
            /\ detections' = [detections EXCEPT ![m] = detection(msgs[m])]
            /\ sendq' = sendq
            /\ updates' = updates
       ELSE /\ broadcast_track_update(m, 1)
            /\ detections' = detections
    /\ UNCHANGED write_failed
    /\ UNCHANGED <<collVars, pureVars, watchVars, satVars, runVars, nmeaVars,
                   ctlVars, eventVars, pushVars, srcVars, loadVars>>
    /\ UNCHANGED <<connVars, connection_attempts, stats, now, hpc, hreq, health,
                   delivered, msgs, nextMsg>>

\* _save_detection returned (the write succeeded, or failed and was logged)
SaveDetectionDone(m) ==
    /\ tpc[m] = "saving"
    /\ broadcast_track_update(m, 1)
    /\ UNCHANGED notServer
    /\ UNCHANGED <<connVars, connection_attempts, stats, now, hpc, hreq, health,
                   delivered, msgs, nextMsg, messages_processed>>

\* asyncio.gather of broadcast() returned: every _safe_send of the pool has
\* finished; broadcast_track_update goes on with the next pool.
GatherDone(m) ==
    /\ tpc[m] \in Pools
    /\ PendingSends(m) = {}
    /\ broadcast_track_update(m, StageIndex(tpc[m]) + 1)
    /\ UNCHANGED notServer
    /\ UNCHANGED <<connVars, connection_attempts, stats, now, hpc, hreq, health,
                   delivered, msgs, nextMsg, messages_processed>>

\* _safe_send that returns without retiring its call: the send is made again
SafeSendOk_resent(m, w) ==
    /\ sendq[w] # <<>> /\ Head(sendq[w]) = m
    /\ health[w] = "ok"
    /\ Len(delivered[w]) < NumMsgs
    /\ stats' = [stats EXCEPT !.messages_sent = @ + 1]
    /\ delivered' = [delivered EXCEPT ![w] = Append(@, m)]
    /\ UNCHANGED notServer
    /\ UNCHANGED <<connVars, connection_attempts, now, hpc, hreq, health, sendq,
                   tpc, msgs, nextMsg, messages_processed, updates>>

\* _safe_send: websocket.send_json returned.  Sends on one websocket finish
\* in the order they were started.
SafeSendOk(m, w) ==
    /\ sendq[w] # <<>> /\ Head(sendq[w]) = m
    /\ health[w] = "ok"
    /\ stats' = [stats EXCEPT !.messages_sent = @ + 1]
    /\ delivered' = [delivered EXCEPT ![w] = Append(@, m)]
    /\ sendq' = [sendq EXCEPT ![w] = Tail(@)]
    /\ UNCHANGED notServer
    /\ UNCHANGED updates
    /\ UNCHANGED <<connVars, connection_attempts, now, hpc, hreq, health,
                   tpc, msgs, nextMsg, messages_processed>>

\* _safe_send: websocket.send_json raised; count it and disconnect the
\* websocket from the pool being broadcast.
SafeSendFailed(m, w) ==
    /\ sendq[w] # <<>> /\ Head(sendq[w]) = m
    /\ health[w] = "broken"
    /\ stats' = [stats EXCEPT !.messages_failed = @ + 1]
    /\ disconnect(w, tpc[m])
    /\ sendq' = [sendq EXCEPT ![w] = Tail(@)]
    /\ UNCHANGED notServer
    /\ UNCHANGED updates
    /\ UNCHANGED <<connection_attempts, now, hpc, hreq, health, delivered,
                   tpc, msgs, nextMsg, messages_processed>>

(***************************************************************************)
(* The collettore: inbound messages, dedup key, vessel store.              *)
(***************************************************************************)
NumCWS == 2         \* downstream websockets of the collettore, 1..NumCWS
NumCMsgs == 2       \* messages received from the upstream sources
MaxClockSteps == 2  \* steps the collettore's wall clock can take

CWS == 1..NumCWS
CMsgs == 1..NumCMsgs
Streams == {"raw", "filtered"}
Sources == {"A", "B"}

\* MessageProcessor(...) and WebSocketOutputServer(...) parameters.  The
\* dedup window and multiplier are the defaults; the vessel expiry and the
\* pool size are scaled down to the model's clock and websockets.
enable_deduplication == TRUE
enable_state_tracking == TRUE
dedup_time_window == 30
dedup_ttl_multiplier == 2
vessel_expire_after == 60
out_max_clients == 1

\* Latitudes and longitudes are counted in units of 0.00001 degree.
Deg(whole, frac) == whole * 100000 + frac

\* A message as json.loads returns it.  has_ts, has_pos and has_name say
\* whether the keys 'timestamp', 'lat'/'lon' and 'name' are in the dict;
\* speed, course and heading are treated by the code like lat and lon, and
\* imo, callsign and shiptype like name.
Message(mmsi, has_ts, ts, has_pos, lat, lon, has_name, name) ==
    [mmsi |-> mmsi, has_ts |-> has_ts, timestamp |-> ts,
     has_pos |-> has_pos, lat |-> lat, lon |-> lon,
     has_name |-> has_name, name |-> name]

S1First == Message("111", TRUE, 1000, TRUE, Deg(10, 0), Deg(20, 0), FALSE, "")
S1Second == Message("111", TRUE, 1020, TRUE, Deg(10, 1), Deg(20, 1), FALSE, "")
SameBucket == Message("111", TRUE, 1019, TRUE, Deg(10, 1), Deg(20, 1), FALSE, "")
StaticOnly == Message("222", FALSE, 0, FALSE, 0, 0, TRUE, "ALPHA")

\* The wall clock starts at the first seed timestamp and advances one dedup
\* window a step.
ClockStart == S1First.timestamp
ClockStep == dedup_time_window
ClockEnd == ClockStart + MaxClockSteps * ClockStep

InboundMessages == {S1First, S1Second, SameBucket, StaticOnly}
NoCMsg == [msg |-> Message("", FALSE, 0, FALSE, 0, 0, FALSE, ""),
           source |-> "", arrived |-> 0]

\* f"{x:.4f}" of a value that is not half-way between two 4-decimal numbers:
\* the nearest multiple of 0.0001, here of 10 units.
Round4(x) == ((x + 5) \div 10) * 10

\* the bucket boundary above the timestamp in place of the one below
ts_rounded_up(ts, time_window) ==
    ((ts + time_window - 1) \div time_window) * time_window

\* int(ts // time_window) * time_window
ts_rounded(ts, time_window) == (ts \div time_window) * time_window

\* the string f"{mmsi}-{ts_rounded}-{lat:.4f}-{lon:.4f}" whose md5 names the
\* dedup key, as the tuple of its four parts; t is time.time()
DedupKey(msg, t) ==
    <<msg.mmsi,
      ts_rounded(IF msg.has_ts THEN msg.timestamp ELSE t, dedup_time_window),
      Round4(IF msg.has_pos THEN msg.lat ELSE 0),
      Round4(IF msg.has_pos THEN msg.lon ELSE 0)>>

\* redis.exists(key): the expired keys are gone from dedup (see ClockTick)
KeyExists(key) == \E e \in dedup : e.key = key

\* RedisCache.is_duplicate: its result, and the store it leaves
is_duplicate(msg) == KeyExists(DedupKey(msg, cnow))

\* dedup_after with a duplicate hit restarting the key's time to live
dedup_after_extending(msg) ==
    {e \in dedup : e.key # DedupKey(msg, cnow)}
    \cup {[key |-> DedupKey(msg, cnow),
           exp |-> cnow + dedup_time_window * dedup_ttl_multiplier]}

dedup_after(msg) ==
    IF is_duplicate(msg) THEN dedup
    ELSE dedup \cup {[key |-> DedupKey(msg, cnow),
                      exp |-> cnow + dedup_time_window * dedup_ttl_multiplier]}

redis_stats_after(msg) ==
    IF is_duplicate(msg)
    THEN [redis_stats EXCEPT !.duplicates = @ + 1]
    ELSE [redis_stats EXCEPT !.unique = @ + 1]

\* The keys vessel:<mmsi>, vessel:<mmsi>:count and vessel:<mmsi>:sources are
\* given the same expiry by every update, so one record holds the three.
MMSIs == {m.mmsi : m \in InboundMessages}
NoTimestamp == 0 - 1
NoVessel == [live |-> FALSE, has_pos |-> FALSE, lat |-> 0, lon |-> 0,
             name |-> "", last_update |-> NoTimestamp, message_count |-> 0,
             sources |-> {}, exp |-> 0]

\* update_vessel that refreshes the expiry but leaves the hash as it was
update_vessel_expiry_only(msg, source) ==
    IF msg.mmsi = "" THEN vessels
    ELSE [vessels EXCEPT ![msg.mmsi].exp = cnow + vessel_expire_after]

\* update_vessel storing the name of the message whenever the key is there
update_vessel_name_overwritten(msg, source) ==
    IF msg.mmsi = "" THEN vessels
    ELSE LET cur == vessels[msg.mmsi] IN
         [vessels EXCEPT ![msg.mmsi] =
             [live |-> TRUE,
              has_pos |-> msg.has_pos \/ cur.has_pos,
              lat |-> IF msg.has_pos THEN msg.lat ELSE cur.lat,
              lon |-> IF msg.has_pos THEN msg.lon ELSE cur.lon,
              name |-> IF msg.has_name THEN msg.name ELSE cur.name,
              last_update |-> IF msg.has_ts THEN msg.timestamp ELSE NoTimestamp,
              message_count |-> cur.message_count + 1,
              sources |-> IF source # "" THEN cur.sources \cup {source}
                          ELSE cur.sources,
              exp |-> cnow + vessel_expire_after]]

\* RedisCache.update_vessel
update_vessel(msg, source) ==
    IF msg.mmsi = "" THEN vessels
    ELSE LET cur == vessels[msg.mmsi] IN
         [vessels EXCEPT ![msg.mmsi] =
             [live |-> TRUE,
              has_pos |-> msg.has_pos \/ cur.has_pos,
              lat |-> IF msg.has_pos THEN msg.lat ELSE cur.lat,
              lon |-> IF msg.has_pos THEN msg.lon ELSE cur.lon,
              name |-> IF msg.has_name /\ msg.name # "" THEN msg.name
                       ELSE cur.name,
              last_update |-> IF msg.has_ts THEN msg.timestamp ELSE NoTimestamp,
              message_count |-> cur.message_count + 1,
              sources |-> IF source # "" THEN cur.sources \cup {source}
                          ELSE cur.sources,
              exp |-> cnow + vessel_expire_after]]

active_vessels_after(msg) ==
    IF msg.mmsi = "" THEN active_vessels ELSE active_vessels \cup {msg.mmsi}

\* cleanup_expired_vessels removing nothing
cleanup_expired_vessels_keeps_all == active_vessels

\* RedisCache.cleanup_expired_vessels
cleanup_expired_vessels == {v \in active_vessels : vessels[v].live}

(***************************************************************************)
(* The collettore output server: the raw and the filtered pool.            *)
(***************************************************************************)
StreamMembers(stream) ==
    IF stream = "raw" THEN raw_connections ELSE filtered_connections

\* ConnectionManager.connect up to "await websocket.accept()"
OutConnect(w, stream) ==
    /\ chpc[w] = "new"
    /\ IF Cardinality(StreamMembers(stream)) >= out_max_clients
       THEN /\ chpc' = [chpc EXCEPT ![w] = "closed"]
            /\ UNCHANGED chreq
       ELSE /\ chpc' = [chpc EXCEPT ![w] = "accepting"]
            /\ chreq' = [chreq EXCEPT ![w] = stream]
    /\ UNCHANGED notColl
    /\ UNCHANGED <<cbarrier, cwake>>
    /\ UNCHANGED <<raw_connections, filtered_connections, out_stats, proc_stats,
                   redis_stats, dedup, vessels, active_vessels, cnow, chealth,
                   csendq, cpc, cmsgs, cnext, class, plog,
                   dedup_order>>

\* ConnectionManager.connect after accept() returned
OutConnectAccepted(w) ==
    /\ chpc[w] = "accepting"
    /\ chpc' = [chpc EXCEPT ![w] = "open"]
    /\ IF chreq[w] = "raw"
       THEN /\ raw_connections' = raw_connections \cup {w}
            /\ out_stats' = [out_stats EXCEPT !.total_raw_connections = @ + 1]
            /\ UNCHANGED filtered_connections
       ELSE /\ filtered_connections' = filtered_connections \cup {w}
            /\ out_stats' =
                   [out_stats EXCEPT !.total_filtered_connections = @ + 1]
            /\ UNCHANGED raw_connections
    /\ UNCHANGED notColl
    /\ UNCHANGED <<cbarrier, cwake>>
    /\ UNCHANGED <<proc_stats, redis_stats, dedup, vessels, active_vessels,
                   cnow, chreq, chealth, csendq, cpc, cmsgs, cnext,
                   class, plog, dedup_order>>

\* ConnectionManager.disconnect: the two pools after w left the stream
out_disconnect_raw(w, stream) ==
    IF stream = "raw" THEN raw_connections \ {w} ELSE raw_connections

out_disconnect_filtered(w, stream) ==
    IF stream = "raw" THEN filtered_connections ELSE filtered_connections \ {w}

\* handle_raw_client / handle_filtered_client: the receive loop ends (the
\* peer closed or the socket failed) and the finally clause disconnects
OutHandlerExit(w) ==
    /\ chpc[w] = "open"
    /\ chealth[w] # "blocked"
    /\ chpc' = [chpc EXCEPT ![w] = "closed"]
    /\ chealth' = [chealth EXCEPT ![w] = "broken"]
    /\ chreq' = [chreq EXCEPT ![w] = "filtered"]
    /\ raw_connections' = out_disconnect_raw(w, chreq[w])
    /\ filtered_connections' = out_disconnect_filtered(w, chreq[w])
    /\ UNCHANGED notColl
    /\ UNCHANGED <<cbarrier, cwake>>
    /\ UNCHANGED <<out_stats, proc_stats, redis_stats, dedup, vessels,
                   active_vessels, cnow, csendq, cpc, cmsgs,
                   cnext, class, plog, dedup_order>>

\* the peer of an open websocket breaks or stops reading
OutClientFault(w, kind) ==
    /\ chpc[w] = "open"
    /\ chealth[w] = "ok"
    /\ chealth' = [chealth EXCEPT ![w] = kind]
    /\ UNCHANGED notColl
    /\ UNCHANGED <<cbarrier, cwake>>
    /\ UNCHANGED <<raw_connections, filtered_connections, out_stats, proc_stats,
                   redis_stats, dedup, vessels, active_vessels, cnow, chpc,
                   chreq, csendq, cpc, cmsgs, cnext, class, plog,
                   dedup_order>>

\* ConnectionManager.broadcast: one _safe_send per member of the snapshot
out_broadcast(m, stream) ==
    [w \in CWS |-> IF w \in StreamMembers(stream)
                   THEN Append(csendq[w], m) ELSE csendq[w]]

\* the sends of message m that have not returned yet
OutPendingSends(m) == {w \in CWS : InSeq(m, csendq[w])}

(***************************************************************************)
(* The collettore: CollettoreServer._on_source_message and the task it     *)
(* spawns, MessageProcessor.process_message.                               *)
(***************************************************************************)
\* _on_source_message: the receive loop hands over a parsed frame and a
\* process_message task is created for it
OnSourceMessage(msg, source) ==
    /\ cnext <= NumCMsgs
    /\ cmsgs' = [cmsgs EXCEPT ![cnext] =
                    [msg |-> msg, source |-> source, arrived |-> cnow]]
    /\ cpc' = [cpc EXCEPT ![cnext] = "spawned"]
    /\ cnext' = cnext + 1
    /\ UNCHANGED notColl
    /\ UNCHANGED <<cbarrier, cwake>>
    /\ UNCHANGED <<raw_connections, filtered_connections, out_stats, proc_stats,
                   redis_stats, dedup, vessels, active_vessels, cnow, chpc,
                   chreq, chealth, csendq, class, plog,
                   dedup_order>>

\* process_message from the return of _broadcast_raw to its next suspension
\* or its end.  ps and lg are proc_stats and plog[m] as the caller left them.
AfterRaw(m, ps, lg) ==
    LET msg == cmsgs[m].msg
        is_dup == enable_deduplication /\ is_duplicate(msg)
        ps1 == [ps EXCEPT !.broadcast_raw = @ + 1]
        lg1 == IF enable_deduplication THEN lg \o <<"raw_done", "dedup">>
               ELSE lg \o <<"raw_done">>
        lg2 == IF enable_state_tracking THEN lg1 \o <<"update">> ELSE lg1
    IN
    /\ dedup' = IF enable_deduplication THEN dedup_after(msg) ELSE dedup
    /\ redis_stats' = IF enable_deduplication THEN redis_stats_after(msg)
                      ELSE redis_stats
    /\ dedup_order' = IF enable_deduplication THEN Append(dedup_order, m)
                      ELSE dedup_order
    /\ IF is_dup
       THEN /\ class' = [class EXCEPT ![m] = "duplicate"]
            /\ proc_stats' = [ps1 EXCEPT !.duplicates = @ + 1]
            /\ plog' = [plog EXCEPT ![m] = lg1]
            /\ cpc' = [cpc EXCEPT ![m] = "done"]
            /\ UNCHANGED <<vessels, active_vessels, csendq, cbarrier>>
       ELSE /\ class' = [class EXCEPT ![m] = "unique"]
            /\ vessels' = IF enable_state_tracking
                          THEN update_vessel(msg, cmsgs[m].source)
                          ELSE vessels
            /\ active_vessels' = IF enable_state_tracking
                                 THEN active_vessels_after(msg)
                                 ELSE active_vessels
            /\ IF filtered_connections = {}
               THEN /\ proc_stats' = [ps1 EXCEPT !.unique = @ + 1,
                                                 !.broadcast_filtered = @ + 1]
                    /\ plog' = [plog EXCEPT ![m] =
                                   lg2 \o <<"filtered", "filtered_done">>]
                    /\ cpc' = [cpc EXCEPT ![m] = "done"]
                    /\ UNCHANGED <<csendq, cbarrier>>
               ELSE /\ proc_stats' = [ps1 EXCEPT !.unique = @ + 1]
                    /\ plog' = [plog EXCEPT ![m] = lg2 \o <<"filtered">>]
                    /\ cpc' = [cpc EXCEPT ![m] = "filtered"]
                    /\ csendq' = out_broadcast(m, "filtered")
                    /\ cbarrier' = [cbarrier EXCEPT ![m] = cnext - 1]

\* process_message from its start to its first suspension (tasks start in
\* the order in which they were created)
CProcessMessage(m) ==
    /\ cpc[m] = "spawned"
    /\ \A k \in CMsgs : k < m => cpc[k] # "spawned"
    /\ IF raw_connections = {}
       THEN AfterRaw(m, [proc_stats EXCEPT !.total_received = @ + 1],
                     plog[m] \o <<"raw">>)
       ELSE /\ proc_stats' = [proc_stats EXCEPT !.total_received = @ + 1]
            /\ plog' = [plog EXCEPT ![m] = @ \o <<"raw">>]
            /\ cpc' = [cpc EXCEPT ![m] = "raw"]
            /\ csendq' = out_broadcast(m, "raw")
            /\ cbarrier' = [cbarrier EXCEPT ![m] = cnext - 1]
            /\ UNCHANGED <<redis_stats, dedup, vessels, active_vessels, class,
                           dedup_order>>
    /\ UNCHANGED notColl
    /\ UNCHANGED cwake
    /\ UNCHANGED <<raw_connections, filtered_connections, out_stats, cnow,
                   chpc, chreq, chealth, cmsgs, cnext>>

\* process_message going on without waiting for the sends of the broadcast
CGatherDone_early(m) ==
    /\ cpc[m] \in Streams
    /\ cwake' = SelectSeq(cwake, LAMBDA k : k # m)
    /\ IF cpc[m] = "raw"
       THEN AfterRaw(m, proc_stats, plog[m])
       ELSE /\ proc_stats' = [proc_stats EXCEPT !.broadcast_filtered = @ + 1]
            /\ plog' = [plog EXCEPT ![m] = @ \o <<"filtered_done">>]
            /\ cpc' = [cpc EXCEPT ![m] = "done"]
            /\ UNCHANGED <<redis_stats, dedup, vessels, active_vessels, class,
                           dedup_order, csendq, cbarrier>>
    /\ UNCHANGED notColl
    /\ UNCHANGED <<raw_connections, filtered_connections, out_stats, cnow,
                   chpc, chreq, chealth, cmsgs, cnext>>

\* asyncio.gather returns in ConnectionManager.broadcast: every _safe_send
\* of the snapshot has returned, and process_message goes on.  The tasks
\* whose gather returned are woken in the order in which that happened.
CGatherDone(m) ==
    /\ cpc[m] \in Streams
    /\ cwake # <<>>
    /\ Head(cwake) = m
    /\ cwake' = Tail(cwake)
    /\ IF cpc[m] = "raw"
       THEN AfterRaw(m, proc_stats, plog[m])
       ELSE /\ proc_stats' = [proc_stats EXCEPT !.broadcast_filtered = @ + 1]
            /\ plog' = [plog EXCEPT ![m] = @ \o <<"filtered_done">>]
            /\ cpc' = [cpc EXCEPT ![m] = "done"]
            /\ UNCHANGED <<redis_stats, dedup, vessels, active_vessels, class,
                           dedup_order, csendq, cbarrier>>
    /\ UNCHANGED notColl
    /\ UNCHANGED <<raw_connections, filtered_connections, out_stats, cnow,
                   chpc, chreq, chealth, cmsgs, cnext>>

\* A _safe_send task is created by the broadcast of message m, behind the
\* process_message tasks that were already created: those start before it.
SendStarted(m) == \A k \in CMsgs : k <= cbarrier[m] => cpc[k] # "spawned"

\* _safe_send: send_json returned
CSafeSendOk(m, w) ==
    /\ csendq[w] # <<>>
    /\ Head(csendq[w]) = m
    /\ chealth[w] = "ok"
    /\ SendStarted(m)
    /\ cwake' = IF OutPendingSends(m) = {w} THEN Append(cwake, m) ELSE cwake
    /\ csendq' = [csendq EXCEPT ![w] = Tail(@)]
    /\ out_stats' = IF cpc[m] = "raw"
                    THEN [out_stats EXCEPT !.messages_sent_raw = @ + 1]
                    ELSE [out_stats EXCEPT !.messages_sent_filtered = @ + 1]
    /\ UNCHANGED notColl
    /\ UNCHANGED cbarrier
    /\ UNCHANGED <<raw_connections, filtered_connections, proc_stats,
                   redis_stats, dedup, vessels, active_vessels, cnow, chpc,
                   chreq, chealth, cpc, cmsgs, cnext, class, plog,
                   dedup_order>>

\* _safe_send: send_json raised
CSafeSendFailed(m, w) ==
    /\ csendq[w] # <<>>
    /\ Head(csendq[w]) = m
    /\ chealth[w] = "broken"
    /\ SendStarted(m)
    /\ cwake' = IF OutPendingSends(m) = {w} THEN Append(cwake, m) ELSE cwake
    /\ csendq' = [csendq EXCEPT ![w] = Tail(@)]
    /\ out_stats' = [out_stats EXCEPT !.messages_failed = @ + 1]
    /\ raw_connections' = out_disconnect_raw(w, cpc[m])
    /\ filtered_connections' = out_disconnect_filtered(w, cpc[m])
    /\ UNCHANGED notColl
    /\ UNCHANGED cbarrier
    /\ UNCHANGED <<proc_stats, redis_stats, dedup, vessels, active_vessels,
                   cnow, chpc, chreq, chealth, cpc, cmsgs, cnext,
                   class, plog, dedup_order>>

\* time passes: Redis drops the keys whose time to live is over
ClockTick ==
    /\ cnow < ClockEnd
    /\ cnow' = cnow + ClockStep
    /\ dedup' = {e \in dedup : e.exp > cnow'}
    /\ vessels' = [v \in MMSIs |->
                      IF vessels[v].live /\ vessels[v].exp <= cnow'
                      THEN NoVessel ELSE vessels[v]]
    /\ UNCHANGED notColl
    /\ UNCHANGED <<cbarrier, cwake>>
    /\ UNCHANGED <<raw_connections, filtered_connections, out_stats, proc_stats,
                   redis_stats, active_vessels, chpc, chreq, chealth, csendq,
                   cpc, cmsgs, cnext, class, plog, dedup_order>>

\* MessageProcessor.cleanup_task: one round of the periodic cleanup
CleanupTask ==
    /\ active_vessels' = cleanup_expired_vessels
    /\ UNCHANGED notColl
    /\ UNCHANGED <<cbarrier, cwake>>
    /\ UNCHANGED <<raw_connections, filtered_connections, out_stats, proc_stats,
                   redis_stats, dedup, vessels, cnow, chpc, chreq, chealth,
                   csendq, cpc, cmsgs, cnext, class, plog,
                   dedup_order>>

InitColl ==
    /\ raw_connections = {}
    /\ filtered_connections = {}
    /\ out_stats = [total_raw_connections |-> 0,
                    total_filtered_connections |-> 0, messages_sent_raw |-> 0,
                    messages_sent_filtered |-> 0, messages_failed |-> 0]
    /\ proc_stats = [total_received |-> 0, duplicates |-> 0, unique |-> 0,
                     broadcast_raw |-> 0, broadcast_filtered |-> 0]
    /\ redis_stats = [unique |-> 0, duplicates |-> 0]
    /\ dedup = {}
    /\ vessels = [v \in MMSIs |-> NoVessel]
    /\ active_vessels = {}
    /\ cnow = ClockStart
    /\ chpc = [w \in CWS |-> "new"]
    /\ chreq = [w \in CWS |-> "filtered"]
    /\ chealth = [w \in CWS |-> "ok"]
    /\ csendq = [w \in CWS |-> <<>>]
    /\ cpc = [m \in CMsgs |-> "none"]
    /\ cmsgs = [m \in CMsgs |-> NoCMsg]
    /\ cnext = 1
    /\ cbarrier = [m \in CMsgs |-> 0]
    /\ cwake = <<>>
    /\ class = [m \in CMsgs |-> "none"]
    /\ plog = [m \in CMsgs |-> <<>>]
    /\ dedup_order = <<>>

(***************************************************************************)
(* The server: construction and next-state relation.                       *)
(***************************************************************************)
(***************************************************************************)
(* Calls of is_point_in_box on its own: call 1 with a box, call 2 with the *)
(* same point and the box whose min_lon and max_lon are exchanged.         *)
(***************************************************************************)
Calls == 1..2
NoCall == [lat |-> 0, lon |-> 0, box |-> NoBox, out |-> "none"]
LatSamples == {-10, 0, 10, 11}
LonSamples == {-180, -175, -170, 0, 170, 175, 180}

BoxCalls ==
    { [k \in Calls |->
          [lat |-> lat, lon |-> lon, out |-> "pending",
           box |-> [min_lat |-> -10, max_lat |-> 10,
                    min_lon |-> IF k = 1 THEN a ELSE b,
                    max_lon |-> IF k = 1 THEN b ELSE a]]] :
      lat \in LatSamples, lon \in LonSamples, a \in LonSamples, b \in LonSamples }

InitPure == pib = [k \in Calls |-> NoCall]

\* is_point_in_box(lat, lon, bounding_box) returns
PointInBoxReturns(k) ==
    /\ pib[k].out = "pending"
    /\ pib' = [pib EXCEPT ![k].out =
                  IF is_point_in_box(pib[k].lat, pib[k].lon, pib[k].box)
                  THEN "true" ELSE "false"]
    /\ UNCHANGED notPure

NextBox == \E k \in Calls : PointInBoxReturns(k)

(***************************************************************************)
(* The server's WatchlistManager.  NumSyncs calls of sync_from_api (the    *)
(* scheduled loop's and the on-demand endpoints') run as coroutines cut at *)
(* their awaits; the upstream API serves NumVersions versions of its data. *)
(* Python's None is "none" for a string and 0 for a number.                *)
(***************************************************************************)
NumSyncs == 2
NumVersions == 2
Syncs == 1..NumSyncs
Versions == 1..NumVersions

\* The vessels the API returns in version v: one vessel with both
\* identifiers whose list changes with the version, one known by IMO only,
\* one without a list, and in the even versions one known by MMSI only.
ApiVessels(v) ==
    { [mmsi |-> "111", imo |-> "9001", list_id |-> IF v % 2 = 1 THEN "A" ELSE "B"],
      [mmsi |-> "none", imo |-> "9002", list_id |-> "A"],
      [mmsi |-> "333", imo |-> "9003", list_id |-> "none"] }
    \cup (IF v % 2 = 0
          THEN {[mmsi |-> "222", imo |-> "none", list_id |-> "B"]} ELSE {})

\* The lists the API returns in version v: list B exists in the even versions.
ApiLists(v) ==
    { [list_id |-> "A", list_name |-> v, color |-> v] }
    \cup (IF v % 2 = 0
          THEN {[list_id |-> "B", list_name |-> v, color |-> v]} ELSE {})

\* {v['mmsi']: v['list_id'] for v in vessels if v.get('mmsi') and v.get('list_id')}
MmsiIndex(normalized_vessels) ==
    LET vs == {v \in normalized_vessels : v.mmsi # "none" /\ v.list_id # "none"} IN
    [k \in {v.mmsi : v \in vs} |-> (CHOOSE v \in vs : v.mmsi = k).list_id]

\* {v['imo']: v['list_id'] for v in vessels if v.get('imo') and v.get('list_id')}
ImoIndex(normalized_vessels) ==
    LET vs == {v \in normalized_vessels : v.imo # "none" /\ v.list_id # "none"} IN
    [k \in {v.imo : v \in vs} |-> (CHOOSE v \in vs : v.imo = k).list_id]

\* {l['list_id']: {'list_name': ..., 'color': ...} for l in lists if l.get('list_id')}
ListsIndex(normalized_lists) ==
    LET ls == {l \in normalized_lists : l.list_id # "none"} IN
    [k \in {l.list_id : l \in ls} |->
        LET l == CHOOSE x \in ls : x.list_id = k IN
        [list_name |-> l.list_name, color |-> l.color]]

\* DatabaseManager.upsert_lists: INSERT ... ON CONFLICT(list_id) DO UPDATE;
\* a row with the list_id of a new one is replaced, every other row stays
upsert_lists(rows, lists) ==
    {x \in rows : \A l \in lists : l.list_id # x.list_id} \cup lists

\* upsert_vessels that first empties the table
upsert_vessels_replacing(rows, items) == items

\* DatabaseManager.upsert_vessels, "insert or update multiple vessels" on
\* the table keyed by mmsi: a row with the mmsi of a new one is replaced,
\* a row without mmsi (NULL is equal to no key) is added, every other row
\* stays
upsert_vessels(rows, items) ==
    {x \in rows : x.mmsi = "none" \/ \A v \in items : v.mmsi # x.mmsi}
        \cup items

\* DatabaseManager.get_all_vessels: SELECT * FROM vessels
get_all_vessels == db.vessel_rows

\* DatabaseManager.get_all_lists: every row of the table lists
get_all_lists == db.list_rows

\* last_sync_time is None
NoTime == 0 - 1

NoFetch == [vessels |-> 0, lists |-> 0]
NoReport == [returned |-> FALSE, success |-> FALSE, vessels |-> 0, lists |-> 0]
NoMatch == [found |-> FALSE, mmsi |-> "none", imo |-> "none", list_id |-> "none",
            list_name |-> 0, color |-> 0, matched_by |-> "none"]
NoLookup == [mmsi |-> "none", imo |-> "none", match |-> NoMatch]

\* the messages check_message is called with: mmsi and imo, each maybe absent
LookupMessages ==
    [mmsi : {"none", "111", "222", "999"}, imo : {"none", "9001", "9002"}]

\* WatchlistManager.__init__
InitWatch ==
    /\ mmsi_cache = <<>>
    /\ imo_cache = <<>>
    /\ lists_cache = <<>>
    /\ last_sync_time = NoTime
    /\ spc = [s \in Syncs |-> "idle"]
    /\ fetched = [s \in Syncs |-> NoFetch]
    /\ report = [s \in Syncs |-> NoReport]
    /\ db = [lists |-> {}, vessels |-> {}, list_rows |-> {}, vessel_rows |-> {}]
    /\ lookup = NoLookup

\* lists_cache.get(list_id, {}) and the two .get of the result
list_info(list_id) ==
    IF list_id \in DOMAIN lists_cache THEN lists_cache[list_id]
    ELSE [list_name |-> 0, color |-> 0]

\* WatchlistManager.get_match
get_match(mmsi) ==
    IF mmsi \notin DOMAIN mmsi_cache THEN NoMatch
    ELSE [found |-> TRUE, mmsi |-> mmsi, imo |-> "none",
          list_id |-> mmsi_cache[mmsi],
          list_name |-> list_info(mmsi_cache[mmsi]).list_name,
          color |-> list_info(mmsi_cache[mmsi]).color,
          matched_by |-> "mmsi"]

\* WatchlistManager.get_match_by_imo
get_match_by_imo(imo) ==
    IF imo \notin DOMAIN imo_cache THEN NoMatch
    ELSE [found |-> TRUE, mmsi |-> "none", imo |-> imo,
          list_id |-> imo_cache[imo],
          list_name |-> list_info(imo_cache[imo]).list_name,
          color |-> list_info(imo_cache[imo]).color,
          matched_by |-> "imo"]

\* check_message trying the IMO before the MMSI
check_message_imo_first(message) ==
    LET by_imo == IF message.imo # "none" THEN get_match_by_imo(message.imo)
                  ELSE NoMatch
    IN  IF by_imo.found
        THEN IF message.mmsi # "none"
             THEN [by_imo EXCEPT !.mmsi = message.mmsi] ELSE by_imo
        ELSE IF message.mmsi # "none" THEN get_match(message.mmsi) ELSE NoMatch

\* WatchlistManager.check_message, the match it returns
check_message(message) ==
    LET by_mmsi == IF message.mmsi # "none" THEN get_match(message.mmsi)
                   ELSE NoMatch
    IN  IF by_mmsi.found THEN by_mmsi
        ELSE IF message.imo = "none" THEN NoMatch
        ELSE LET by_imo == get_match_by_imo(message.imo) IN
             IF by_imo.found /\ message.mmsi # "none"
             THEN [by_imo EXCEPT !.mmsi = message.mmsi]
             ELSE by_imo

\* check_message(message) is called; it runs without suspending.  The
\* update it may schedule for an IMO match is a request to the upstream
\* API and touches nothing of the manager.
\* push_updates_enabled, set in __init__ and nowhere else
push_updates_enabled == TRUE

\* _schedule_vessel_update: update_data gets the message's mmsi (the
\* modelled messages have no other field it copies) and a task is created
\* when update_data is not empty
schedule_vessel_update(imo, message) ==
    IF message.mmsi # "none"
    THEN <<[imo |-> imo, mmsi |-> message.mmsi, pc |-> "pending"]>>
    ELSE <<>>

\* a check_message that schedules a push for every match
scheduled_by_any_match(message) ==
    IF check_message(message).found /\ message.imo # "none"
    THEN schedule_vessel_update(message.imo, message)
    ELSE <<>>

\* the tasks check_message creates: one in the branch taken when the mmsi
\* gave no match and the imo gives one
scheduled_by(message) ==
    LET by_mmsi == IF message.mmsi # "none" THEN get_match(message.mmsi)
                   ELSE NoMatch
    IN  IF /\ ~by_mmsi.found
           /\ message.imo # "none"
           /\ get_match_by_imo(message.imo).found
           /\ push_updates_enabled
        THEN schedule_vessel_update(message.imo, message)
        ELSE <<>>

CheckMessage(message) ==
    /\ lookup' = [mmsi |-> message.mmsi, imo |-> message.imo,
                  match |-> check_message(message)]
    /\ scheduled' = scheduled_by(message)
    /\ UNCHANGED <<serverVars, collVars, pureVars, satVars, runVars, nmeaVars,
                   ctlVars, eventVars, srcVars, loadVars, detVars>>
    /\ UNCHANGED <<cacheVars, spc, fetched, report, db>>

\* sync_from_api is called and suspends in fetch_all
SyncStart(s) ==
    /\ spc[s] = "idle"
    /\ spc' = [spc EXCEPT ![s] = "fetch_all"]
    /\ UNCHANGED notWatch
    /\ UNCHANGED <<cacheVars, fetched, report, db, lookup>>

\* fetch_all returned: the two requests of its gather saw version vv of the
\* vessels and version lv of the lists; the lists are normalised and the
\* coroutine suspends in upsert_lists.
FetchAllOk(s, vv, lv) ==
    /\ spc[s] = "fetch_all"
    /\ fetched' = [fetched EXCEPT ![s] = [vessels |-> vv, lists |-> lv]]
    /\ spc' = [spc EXCEPT ![s] = "upsert_lists"]
    /\ UNCHANGED notWatch
    /\ UNCHANGED <<cacheVars, report, db, lookup>>

\* the except branch of sync_from_api
sync_failed(s) ==
    /\ spc' = [spc EXCEPT ![s] = "failed"]
    /\ report' = [report EXCEPT ![s] =
                     [returned |-> TRUE, success |-> FALSE,
                      vessels |-> 0, lists |-> 0]]

\* fetch_vessels or fetch_lists raised after its retries, fetch_all re-raised
FetchAllFailed(s) ==
    /\ spc[s] = "fetch_all"
    /\ sync_failed(s)
    /\ UNCHANGED notWatch
    /\ UNCHANGED <<cacheVars, fetched, db, lookup>>

\* UpsertListsOk with the indexes assigned before upsert_vessels is awaited
UpsertListsOk_assigning(s) ==
    /\ spc[s] = "upsert_lists"
    /\ db' = [db EXCEPT !.lists = @ \cup {fetched[s].lists},
                        !.list_rows = upsert_lists(@, ApiLists(fetched[s].lists))]
    /\ spc' = [spc EXCEPT ![s] = "upsert_vessels"]
    /\ mmsi_cache' = MmsiIndex(ApiVessels(fetched[s].vessels))
    /\ imo_cache' = ImoIndex(ApiVessels(fetched[s].vessels))
    /\ lists_cache' = ListsIndex(ApiLists(fetched[s].lists))
    /\ UNCHANGED notWatch
    /\ UNCHANGED <<last_sync_time, fetched, report, lookup>>

\* upsert_lists returned; the coroutine suspends in upsert_vessels
UpsertListsOk(s) ==
    /\ spc[s] = "upsert_lists"
    /\ db' = [db EXCEPT !.lists = @ \cup {fetched[s].lists},
                        !.list_rows = upsert_lists(@, ApiLists(fetched[s].lists))]
    /\ spc' = [spc EXCEPT ![s] = "upsert_vessels"]
    /\ UNCHANGED notWatch
    /\ UNCHANGED <<cacheVars, fetched, report, lookup>>

\* upsert_lists raised
UpsertListsFailed(s) ==
    /\ spc[s] = "upsert_lists"
    /\ sync_failed(s)
    /\ UNCHANGED notWatch
    /\ UNCHANGED <<cacheVars, fetched, db, lookup>>

\* synced_caches keeping the lists_cache it finds
synced_caches_stale_lists(vv, lv) ==
    <<MmsiIndex(ApiVessels(vv)), ImoIndex(ApiVessels(vv)),
      lists_cache, now>>

\* the three indexes and last_sync_time after the assignments of a sync
\* that got vessels version vv and lists version lv
synced_caches(vv, lv) ==
    <<MmsiIndex(ApiVessels(vv)), ImoIndex(ApiVessels(vv)),
      ListsIndex(ApiLists(lv)), now>>

\* upsert_vessels returned: the indexes are rebuilt and assigned, the time
\* is taken and the report returned, all without suspending
UpsertVesselsOk(s) ==
    /\ spc[s] = "upsert_vessels"
    /\ db' = [db EXCEPT !.vessels = @ \cup {fetched[s].vessels},
                        !.vessel_rows = upsert_vessels(@, ApiVessels(fetched[s].vessels))]
    /\ LET new == synced_caches(fetched[s].vessels, fetched[s].lists) IN
       /\ mmsi_cache' = new[1]
       /\ imo_cache' = new[2]
       /\ lists_cache' = new[3]
       /\ last_sync_time' = new[4]
    /\ spc' = [spc EXCEPT ![s] = "synced"]
    /\ report' = [report EXCEPT ![s] =
                     [returned |-> TRUE, success |-> TRUE,
                      vessels |-> Cardinality(ApiVessels(fetched[s].vessels)),
                      lists |-> Cardinality(ApiLists(fetched[s].lists))]]
    /\ UNCHANGED notWatch
    /\ UNCHANGED <<fetched, lookup>>

\* upsert_vessels raised, after upsert_lists wrote its rows
UpsertVesselsFailed(s) ==
    /\ spc[s] = "upsert_vessels"
    /\ sync_failed(s)
    /\ UNCHANGED notWatch
    /\ UNCHANGED <<cacheVars, fetched, db, lookup>>

NextWatch ==
    \/ \E message \in LookupMessages : CheckMessage(message)
    \/ \E s \in Syncs : SyncStart(s)
    \/ \E s \in Syncs, vv \in Versions, lv \in Versions : FetchAllOk(s, vv, lv)
    \/ \E s \in Syncs : FetchAllFailed(s)
    \/ \E s \in Syncs : UpsertListsOk(s)
    \/ \E s \in Syncs : UpsertListsFailed(s)
    \/ \E s \in Syncs : UpsertVesselsOk(s)
    \/ \E s \in Syncs : UpsertVesselsFailed(s)
    \/ Tick


(***************************************************************************)
(* The server's source adapter, SatelliteClient: the coroutines start()    *)
(* and stop() cut at their awaits.  Each open_connection that succeeds     *)
(* yields a fresh socket; the remote end decides how a connect and a read  *)
(* end.  Times are in seconds.                                             *)
(***************************************************************************)
MaxConns == 3
MaxAttempts == 4
MaxLines == 1
reconnect_interval == 5
max_wait == 60
Socks == 1..MaxConns

RECURSIVE Pow2(_)
Pow2(n) == IF n = 0 THEN 1 ELSE 2 * Pow2(n - 1)

Min(a, b) == IF a <= b THEN a ELSE b

\* SatelliteClient.__init__
InitSat ==
    /\ apc = "idle"
    /\ stop_pc = "none"
    /\ reconnect = TRUE
    /\ running = FALSE
    /\ connected = FALSE
    /\ reconnect_attempts = 0
    /\ wait_time = 0
    /\ writer = 0
    /\ sock = [s \in Socks |-> "unused"]
    /\ lines_read = 0

\* min(self.reconnect_interval * (2 ** self.reconnect_attempts), 60)
backoff_wait(attempts) == Min(reconnect_interval * Pow2(attempts), max_wait)

\* start() from the test of its while loop to its next await, with the
\* values run and conn of running and connected and the reader rd: the
\* loop ends, or connect() is entered, or _receive_loop is entered and
\* reads, or _receive_loop returns at once and the loop is tested again,
\* which with running true and connected true never suspends.
loop_top(run, conn, rd) ==
    IF ~run THEN "exited"
    ELSE IF ~conn THEN "connecting"
    ELSE IF rd = 0 THEN "spinning"
    ELSE "receiving"

\* start() after connect() returned True: _receive_loop is entered
after_connect(run, conn, rd) ==
    IF rd # 0 /\ run /\ conn THEN "receiving" ELSE loop_top(run, conn, rd)

\* DarkFleetServer creates the client with its reconnect setting and
\* start() runs up to the await in connect()
sat_start(r) ==
    /\ apc = "idle"
    /\ reconnect' = r
    /\ running' = TRUE
    /\ apc' = "connecting"
    /\ UNCHANGED <<stop_pc, connected, reconnect_attempts, wait_time, writer,
                   sock, lines_read>>

SatStart(r) == sat_start(r) /\ UNCHANGED notSat

\* open_connection returned: connect() stores the streams, sets connected
\* and resets reconnect_attempts; start() goes on into _receive_loop
ConnectOk(s) ==
    /\ apc = "connecting"
    /\ sock[s] = "unused" /\ \A t \in Socks : t < s => sock[t] # "unused"
    /\ sock' = [sock EXCEPT ![s] = "open"]
    /\ writer' = s
    /\ connected' = TRUE
    /\ reconnect_attempts' = 0
    /\ apc' = after_connect(running, TRUE, s)
    /\ UNCHANGED notSat
    /\ UNCHANGED <<stop_pc, reconnect, running, wait_time, lines_read>>

\* open_connection raised: connect() returns False; start() ends without
\* auto-reconnect and otherwise sleeps the backoff wait
ConnectFailed ==
    /\ apc = "connecting"
    /\ reconnect_attempts < MaxAttempts \/ ~running \/ ~reconnect
    /\ IF ~reconnect
       THEN /\ apc' = "exited"
            /\ UNCHANGED <<wait_time, reconnect_attempts>>
       ELSE /\ wait_time' = backoff_wait(reconnect_attempts)
            /\ reconnect_attempts' = reconnect_attempts + 1
            /\ apc' = "backoff"
    /\ UNCHANGED notSat
    /\ UNCHANGED <<stop_pc, reconnect, running, connected, writer, sock,
                   lines_read>>

\* asyncio.sleep(wait_time) returned: continue
BackoffDone ==
    /\ apc = "backoff"
    /\ apc' = loop_top(running, connected, writer)
    /\ UNCHANGED notSat
    /\ UNCHANGED <<stop_pc, reconnect, running, connected, reconnect_attempts,
                   wait_time, writer, sock, lines_read>>

\* readline returned a line: it is counted and handed to on_message, and
\* the while condition of _receive_loop is tested again
ReceiveLine ==
    /\ apc = "receiving"
    /\ lines_read < MaxLines
    /\ lines_read' = lines_read + 1
    /\ apc' = after_connect(running, connected, writer)
    /\ UNCHANGED notSat
    /\ UNCHANGED <<stop_pc, reconnect, running, connected, reconnect_attempts,
                   wait_time, writer, sock>>

\* readline returned b'' (kind "eof"), wait_for timed out after 30 s
\* ("timeout") or the read raised ("error"): connected is cleared,
\* _receive_loop returns and start() tests its loop again
ReceiveLost(kind) ==
    /\ apc = "receiving"
    /\ connected' = FALSE
    /\ apc' = loop_top(running, FALSE, writer)
    /\ UNCHANGED notSat
    /\ UNCHANGED <<stop_pc, reconnect, running, reconnect_attempts, wait_time,
                   writer, sock, lines_read>>

\* stop(): running is cleared and disconnect() runs up to the await of
\* wait_closed, or to its end when there is no writer.  writer.close()
\* closes the socket.
sat_stop ==
    /\ apc # "idle"
    /\ stop_pc = "none"
    /\ running' = FALSE
    /\ connected' = FALSE
    /\ IF writer # 0
       THEN /\ sock' = [sock EXCEPT ![writer] = "closed"]
            /\ stop_pc' = "wait_closed"
       ELSE /\ sock' = sock
            /\ stop_pc' = "done"
    /\ UNCHANGED <<apc, reconnect, reconnect_attempts, wait_time, writer,
                   lines_read>>

SatStop == sat_stop /\ UNCHANGED notSat

\* wait_closed returned: disconnect() clears reader and writer
sat_stop_closed ==
    /\ stop_pc = "wait_closed"
    /\ writer' = 0
    /\ stop_pc' = "done"
    /\ UNCHANGED <<apc, reconnect, running, connected, reconnect_attempts,
                   wait_time, sock, lines_read>>

SatStopClosed == sat_stop_closed /\ UNCHANGED notSat

NextSat ==
    \/ \E r \in BOOLEAN : SatStart(r)
    \/ \E s \in Socks : ConnectOk(s)
    \/ ConnectFailed
    \/ BackoffDone
    \/ ReceiveLine
    \/ \E kind \in {"eof", "timeout", "error"} : ReceiveLost(kind)
    \/ SatStop
    \/ SatStopClosed

\* every await of the adapter returns: a connect succeeds or fails, a sleep
\* ends, a read returns a line, nothing within 30 s, or fails, and a closed
\* writer reports it
FairSat ==
    /\ WF_vars((\E s \in Socks : ConnectOk(s)) \/ ConnectFailed)
    /\ WF_vars(BackoffDone)
    /\ WF_vars(\E kind \in {"eof", "timeout", "error"} : ReceiveLost(kind))
    /\ WF_vars(SatStopClosed)

(***************************************************************************)
(* The two runtimes, DarkFleetServer and CollettoreServer: start() creates *)
(* the long-running tasks and shutdown() runs from the lifespan's exit.    *)
(* The server's adapter task is the SatelliteClient above; the             *)
(* collettore's adapters are behind SourceManager.stop_all, which is taken *)
(* to return.                                                              *)
(***************************************************************************)
Runtimes == {"server", "collettore"}
Tasks == {"server_stats", "sync", "cleanup", "collettore_stats"}

StatsTask(rt) == IF rt = "server" THEN "server_stats" ELSE "collettore_stats"

\* the runtimes are constructed and no task is created
InitRun ==
    /\ shutdown_requested = [rt \in Runtimes |-> FALSE]
    /\ run_pc = [rt \in Runtimes |-> "none"]
    /\ task = [t \in Tasks |-> "none"]

\* DarkFleetServer.initialize() and start(): the scheduled sync loop, the
\* adapter task and the statistics loop are created and run to their
\* first await
ServerStart(r) ==
    /\ run_pc["server"] = "none"
    /\ sat_start(r)
    /\ run_pc' = [run_pc EXCEPT !["server"] = "started"]
    /\ task' = [task EXCEPT !["sync"] = "sleeping", !["server_stats"] = "sleeping"]
    /\ UNCHANGED shutdown_requested
    /\ UNCHANGED <<serverVars, collVars, pureVars, watchVars, nmeaVars, ctlVars, eventVars, pushVars, srcVars, loadVars, detVars>>

\* CollettoreServer.start(): start_all, then the cleanup task and the
\* statistics loop are created and run to their first await
CollStart ==
    /\ run_pc["collettore"] = "none"
    /\ run_pc' = [run_pc EXCEPT !["collettore"] = "started"]
    /\ task' = [task EXCEPT !["cleanup"] = "sleeping",
                            !["collettore_stats"] = "sleeping"]
    /\ UNCHANGED shutdown_requested
    /\ UNCHANGED notRun

\* _stats_loop of either runtime: the sleep returns, the statistics are
\* logged and the while condition is tested
StatsLoop(rt) ==
    /\ task[StatsTask(rt)] = "sleeping"
    /\ task' = [task EXCEPT ![StatsTask(rt)] =
                  IF shutdown_requested[rt] THEN "exited" ELSE "sleeping"]
    /\ UNCHANGED <<shutdown_requested, run_pc>>
    /\ UNCHANGED notRun

\* sync_loop: the sleep returns and sync_from_api is awaited, or
\* sync_from_api returns and the loop sleeps again
SyncLoop ==
    /\ task["sync"] \in {"sleeping", "syncing"}
    /\ task' = [task EXCEPT !["sync"] =
                  IF @ = "sleeping" THEN "syncing" ELSE "sleeping"]
    /\ UNCHANGED <<shutdown_requested, run_pc>>
    /\ UNCHANGED notRun

\* the cancelled sync_loop is resumed with CancelledError and ends
SyncCancelled ==
    /\ task["sync"] = "cancelled"
    /\ task' = [task EXCEPT !["sync"] = "exited"]
    /\ UNCHANGED <<shutdown_requested, run_pc>>
    /\ UNCHANGED notRun

\* cleanup_task: the sleep returns, cleanup_expired_vessels runs and the
\* loop, a while True, sleeps again
CleanupLoop ==
    /\ task["cleanup"] = "sleeping"
    /\ CleanupTask

\* stop_scheduled_sync up to its await: the sync task is cancelled
stop_scheduled_sync ==
    [task EXCEPT !["sync"] = IF @ \in {"sleeping", "syncing"} THEN "cancelled" ELSE @]

\* DarkFleetServer.shutdown(): the flag is set and the adapter's stop() is
\* awaited; when stop() had no writer to close, shutdown() goes on to
\* stop_scheduled_sync and awaits the cancelled task
ServerShutdown ==
    /\ run_pc["server"] = "started"
    /\ shutdown_requested' = [shutdown_requested EXCEPT !["server"] = TRUE]
    /\ sat_stop
    /\ IF writer # 0
       THEN /\ run_pc' = [run_pc EXCEPT !["server"] = "stop_adapter"]
            /\ task' = task
       ELSE /\ run_pc' = [run_pc EXCEPT !["server"] = "stop_sync"]
            /\ task' = stop_scheduled_sync
    /\ UNCHANGED <<serverVars, collVars, pureVars, watchVars, nmeaVars, ctlVars, eventVars, pushVars, srcVars, loadVars, detVars>>

\* the writer reports closed: stop() returns and shutdown() goes on to
\* stop_scheduled_sync
ServerAdapterStopped ==
    /\ run_pc["server"] = "stop_adapter"
    /\ sat_stop_closed
    /\ run_pc' = [run_pc EXCEPT !["server"] = "stop_sync"]
    /\ task' = stop_scheduled_sync
    /\ UNCHANGED shutdown_requested
    /\ UNCHANGED <<serverVars, collVars, pureVars, watchVars, nmeaVars, ctlVars, eventVars, pushVars, srcVars, loadVars, detVars>>

\* the awaited sync task has ended: the api client and the database are
\* closed and shutdown() returns
ServerShutdownDone ==
    /\ run_pc["server"] = "stop_sync"
    /\ task["sync"] = "exited"
    /\ run_pc' = [run_pc EXCEPT !["server"] = "done"]
    /\ UNCHANGED <<shutdown_requested, task>>
    /\ UNCHANGED notRun

\* CollettoreServer.shutdown(): the flag is set and stop_all is awaited
CollShutdown ==
    /\ run_pc["collettore"] = "started"
    /\ shutdown_requested' = [shutdown_requested EXCEPT !["collettore"] = TRUE]
    /\ run_pc' = [run_pc EXCEPT !["collettore"] = "stop_all"]
    /\ UNCHANGED task
    /\ UNCHANGED notRun

\* stop_all returned and so does shutdown()
CollShutdownDone ==
    /\ run_pc["collettore"] = "stop_all"
    /\ run_pc' = [run_pc EXCEPT !["collettore"] = "done"]
    /\ UNCHANGED <<shutdown_requested, task>>
    /\ UNCHANGED notRun

(***************************************************************************)
(* The server's NMEAParser: parse() on sentences whose fields 1..4 are     *)
(* (fragment_count, fragment_num, seq_id, channel).  A sentence is its     *)
(* fields and a payload; none needs its prefix repaired.  handed is the    *)
(* argument of pyais.decode: the sentence, or the tuple of fragments.      *)
(***************************************************************************)
MaxSentences == 4
MaxFragCount == 3
NumPayloads == 2
ParserStep == 31
MaxParserTicks == 2
fragment_timeout == 60

FragCounts == 1..MaxFragCount
FragNums == 0..MaxFragCount
Sentences ==
    {[count |-> c, num |-> n, seq |-> "0", channel |-> "A", payload |-> p, valid |-> TRUE] :
        c \in FragCounts \ {1}, n \in FragNums, p \in 1..NumPayloads}
    \cup {[count |-> 1, num |-> 1, seq |-> "0", channel |-> "A", payload |-> p, valid |-> v] :
            p \in 1..NumPayloads, v \in BOOLEAN}

\* NMEAParser.__init__
InitNmea ==
    /\ fragment_buffer = <<>>
    /\ parser_stats = [fragments_buffered |-> 0, fragments_assembled |-> 0,
                       fragments_expired |-> 0, invalid_sentences |-> 0]
    /\ ptime = 0
    /\ fed = <<>>
    /\ calls = 0
    /\ handed = <<>>
    /\ last_arrival = <<>>

\* buffer_key = (fragment_count, seq_id, channel)
buffer_key(s) == <<s.count, s.seq, s.channel>>

\* the keys _expire_old_fragments collects
expired_keys ==
    {k \in DOMAIN fragment_buffer :
        ptime - fragment_buffer[k].timestamp > fragment_timeout}

\* the sum of len(fragments) over the keys
RECURSIVE fragments_held(_)
fragments_held(keys) ==
    IF keys = {} THEN 0
    ELSE LET k == CHOOSE x \in keys : TRUE IN
         Cardinality(DOMAIN fragment_buffer[k].fragments) + fragments_held(keys \ {k})

\* the buffer _expire_old_fragments leaves
swept_buffer ==
    [k \in DOMAIN fragment_buffer \ expired_keys |-> fragment_buffer[k]]

\* the entry of _handle_fragments for the sentence s after it stored s:
\* a new entry is stamped with the time, an old one keeps its timestamp
stored(s) ==
    LET k == buffer_key(s)
        old == IF k \in DOMAIN swept_buffer
               THEN swept_buffer[k]
               ELSE [fragments |-> <<>>, timestamp |-> ptime]
    IN [fragments |-> [n \in DOMAIN old.fragments \cup {s.num} |->
                          IF n = s.num THEN s ELSE old.fragments[n]],
        timestamp |-> old.timestamp]

\* expected_fragments == received_fragments
complete(s) == DOMAIN stored(s).fragments = 1..s.count

\* _assemble_multipart_sentence
assemble_multipart_sentence(fragments, fragment_count) ==
    [i \in 1..fragment_count |-> fragments[i]]

\* parse(s): an invalid sentence is counted and dropped; otherwise the old
\* fragments are expired and _handle_fragments returns the sentence itself
\* (fragment_count 1), None (the fragment is buffered) or the assembled
\* tuple, which is passed to decode
Parse(s) ==
    /\ calls < MaxSentences
    /\ calls' = calls + 1
    /\ fed' = <<s>>
    /\ IF ~s.valid
       THEN /\ parser_stats' = [parser_stats EXCEPT !.invalid_sentences = @ + 1]
            /\ handed' = <<>>
            /\ UNCHANGED <<fragment_buffer, last_arrival>>
       ELSE IF s.count = 1
       THEN /\ parser_stats' = [parser_stats EXCEPT
                  !.fragments_expired = @ + fragments_held(expired_keys)]
            /\ fragment_buffer' = swept_buffer
            /\ handed' = <<s>>
            /\ UNCHANGED last_arrival
       ELSE LET k == buffer_key(s) IN
            /\ parser_stats' = [parser_stats EXCEPT
                  !.fragments_expired = @ + fragments_held(expired_keys),
                  !.fragments_buffered = @ + 1,
                  !.fragments_assembled = IF complete(s) THEN @ + 1 ELSE @]
            /\ fragment_buffer' =
                  IF complete(s)
                  THEN [x \in DOMAIN swept_buffer \ {k} |-> swept_buffer[x]]
                  ELSE [x \in DOMAIN swept_buffer \cup {k} |->
                          IF x = k THEN stored(s) ELSE swept_buffer[x]]
            /\ handed' = IF complete(s)
                         THEN assemble_multipart_sentence(stored(s).fragments, s.count)
                         ELSE <<>>
            /\ last_arrival' = [x \in DOMAIN last_arrival \cup {k} |->
                                  IF x = k THEN ptime ELSE last_arrival[x]]
    /\ UNCHANGED ptime
    /\ UNCHANGED notNmea

\* time passes between two sentences
ParserTick ==
    /\ ptime < ParserStep * MaxParserTicks
    /\ ptime' = ptime + ParserStep
    /\ UNCHANGED <<fragment_buffer, parser_stats, fed, calls, handed, last_arrival>>
    /\ UNCHANGED notNmea

(***************************************************************************)
(* The receive loop of a subscriber's handler (handle_client and its       *)
(* siblings): a text frame is parsed with json.loads and a ping is         *)
(* answered.  Frames are told apart by what json.loads makes of them.      *)
(***************************************************************************)
MaxFrames == 3
FrameKinds == {"ping", "other_type", "invalid_json", "not_an_object"}
NoFrame == [ws |-> 0, kind |-> "none"]

InitCtl ==
    /\ inbound = NoFrame
    /\ frames = 0
    /\ pongs = [w \in WS |-> 0]

\* what the loop body does with a frame: json.loads raises JSONDecodeError,
\* which is caught and logged; message.get('type') on a dict gives the
\* type, and on a number, string, list or null raises AttributeError, which
\* leaves the loop through 'except Exception'
frame_outcome(kind) ==
    IF kind = "invalid_json" THEN "ignored"
    ELSE IF kind = "not_an_object" THEN "raised"
    ELSE IF kind = "ping" THEN "pong"
    ELSE "ignored"

\* receive_text returned a frame of the kind to the handler of w: a pong
\* is sent with send_personal, or the frame is dropped, or the exception
\* ends the handler and its finally clause runs disconnect(websocket, pool)
ReceiveFrame(w, kind) ==
    /\ hpc[w] = "open"
    /\ health[w] = "ok"
    /\ frames < MaxFrames
    /\ frames' = frames + 1
    /\ inbound' = [ws |-> w, kind |-> kind]
    /\ pongs' = [pongs EXCEPT ![w] = IF frame_outcome(kind) = "pong" THEN @ + 1 ELSE @]
    /\ stats' = IF frame_outcome(kind) = "pong"
                THEN [stats EXCEPT !.messages_sent = @ + 1] ELSE stats
    /\ IF frame_outcome(kind) = "raised"
       THEN /\ disconnect(w, hreq[w].pool)
            /\ hpc' = [hpc EXCEPT ![w] = "closed"]
            /\ hreq' = [hreq EXCEPT ![w] = NoReq]
            /\ health' = [health EXCEPT ![w] = "broken"]
       ELSE UNCHANGED <<connVars, hpc, hreq, health>>
    /\ UNCHANGED <<connection_attempts, now, sendq, delivered, tpc, msgs,
                   nextMsg, messages_processed, updates>>
    /\ UNCHANGED <<collVars, pureVars, watchVars, satVars, runVars, nmeaVars, eventVars, pushVars, srcVars, loadVars, detVars>>

(***************************************************************************)
(* The event dict broadcast_track_update builds from a message and a       *)
(* match.  A message is told by the optional keys it has; a key that is    *)
(* present has a value, and None is written "null".                        *)
(***************************************************************************)
OptionalKeys == {"lat", "lon", "speed", "course", "heading",
                 "name", "imo", "callsign", "shiptype"}
CopiedKeys == {"name", "imo", "callsign", "shiptype"}
NoEvent == [keys |-> {}, match |-> FALSE, event |-> <<>>]

InitEvent == track_event = NoEvent

\* message.get(key)
get(keys, key) == IF key \in keys THEN "value" ELSE "null"

\* the dict literal and the four 'if key in message' copies
track_update(keys, match) ==
    [k \in {"type", "timestamp", "mmsi", "lat", "lon", "speed", "course",
            "heading", "watchlist"} \cup (keys \cap CopiedKeys) |->
        IF k \in {"type", "timestamp", "mmsi"} THEN "value"
        ELSE IF k = "watchlist" THEN (IF match THEN "match" ELSE "null")
        ELSE get(keys, k)]

\* broadcast_track_update is called with a message and a match
BuildTrackUpdate(keys, match) ==
    /\ track_event = NoEvent
    /\ track_event' = [keys |-> keys, match |-> match,
                       event |-> track_update(keys, match)]
    /\ UNCHANGED notEvent

InitPush == scheduled = <<>>

\* _push_vessel_update: update_vessel_by_imo returns, or it raises and the
\* exception is logged and dropped
PushVesselUpdate(i, ok) ==
    /\ i \in DOMAIN scheduled
    /\ scheduled[i].pc = "pending"
    /\ scheduled' = [scheduled EXCEPT ![i].pc = IF ok THEN "pushed" ELSE "failed"]
    /\ UNCHANGED notPush

(***************************************************************************)
(* Collettore SourceWebSocketClient (ingestion/websocket_client.py).       *)
(* start() is cut at its awaits; the upstream accepts or refuses a         *)
(* connection and closes an open one normally (the iteration over the      *)
(* websocket ends) or abnormally (the iteration raises).                   *)
(***************************************************************************)
MaxSrcConns == 3    \* connections one source adapter establishes
MaxSrcMsgs == 2     \* messages one source adapter receives
MaxSrcFailures == 4 \* failed connection attempts in a row
LimitedAttempts == 2 \* the non-zero reconnect_max_attempts the adapter is run with

InitSrc ==
    /\ src_pc = "idle"
    /\ src_reconnect = TRUE
    /\ src_max_attempts = 0
    /\ src_running = FALSE
    /\ src_connected = FALSE
    /\ src_reconnect_attempts = 0
    /\ src_websocket = "none"
    /\ src_stats = [messages_received |-> 0, connection_count |-> 0,
                    reconnect_count |-> 0]
    /\ src_failed = 0

\* the values of reconnect_max_attempts the adapter is constructed with
MaxAttemptsChoices == {0, LimitedAttempts}

\* start(), the head of the while loop: leave when not running, connect
\* when not connected, else call _receive_loop
src_loop_top(run, conn) ==
    IF ~run THEN "done" ELSE IF ~conn THEN "connecting" ELSE "receiving"

\* start(), lines 97-105: the test that ends the loop after a failed connect
attempts_exhausted(max, attempts) == max > 0 /\ attempts >= max

\* __init__ with the given parameters, then start() up to its first await
SrcStart(r, n) ==
    /\ src_pc = "idle"
    /\ src_reconnect' = r
    /\ src_max_attempts' = n
    /\ src_running' = TRUE
    /\ src_pc' = src_loop_top(TRUE, src_connected)
    /\ UNCHANGED <<src_connected, src_reconnect_attempts, src_websocket,
                   src_stats, src_failed>>
    /\ UNCHANGED notSrc

\* connect() returned True; start() goes on to _receive_loop, which
\* suspends in the iteration over the websocket
SrcConnectOk ==
    /\ src_pc = "connecting"
    /\ src_stats.connection_count < MaxSrcConns
    /\ src_websocket' = "open"
    /\ src_connected' = TRUE
    /\ src_reconnect_attempts' = 0
    /\ src_stats' = [src_stats EXCEPT !.connection_count = @ + 1]
    /\ src_failed' = 0
    /\ src_pc' = "receiving"
    /\ UNCHANGED <<src_reconnect, src_max_attempts, src_running>>
    /\ UNCHANGED notSrc

\* connect() returned False: stop without auto-reconnect or when the
\* attempts are used up, else count the attempt and sleep
SrcConnectFailed ==
    /\ src_pc = "connecting"
    /\ src_failed < MaxSrcFailures
    /\ src_failed' = src_failed + 1
    /\ IF ~src_reconnect
          \/ attempts_exhausted(src_max_attempts, src_reconnect_attempts)
       THEN /\ src_pc' = "done"
            /\ src_reconnect_attempts' = src_reconnect_attempts
       ELSE /\ src_pc' = "backoff"
            /\ src_reconnect_attempts' = src_reconnect_attempts + 1
    /\ UNCHANGED <<src_reconnect, src_max_attempts, src_running, src_connected,
                   src_websocket, src_stats>>
    /\ UNCHANGED notSrc

\* asyncio.sleep(wait_time) returned; continue
SrcBackoffDone ==
    /\ src_pc = "backoff"
    /\ src_pc' = src_loop_top(src_running, src_connected)
    /\ UNCHANGED <<src_reconnect, src_max_attempts, src_running, src_connected,
                   src_reconnect_attempts, src_websocket, src_stats, src_failed>>
    /\ UNCHANGED notSrc

\* _receive_loop: the iteration yields a message, it is counted and handed
\* to on_message, and the loop waits for the next one
SrcMessage ==
    /\ src_pc = "receiving"
    /\ src_websocket = "open"
    /\ src_running
    /\ src_stats.messages_received < MaxSrcMsgs
    /\ src_stats' = [src_stats EXCEPT !.messages_received = @ + 1]
    /\ UNCHANGED <<src_pc, src_reconnect, src_max_attempts, src_running,
                   src_connected, src_reconnect_attempts, src_websocket, src_failed>>
    /\ UNCHANGED notSrc

\* the upstream closes the established connection, with a normal closing
\* handshake or without one
SrcUpstreamCloses(kind) ==
    /\ src_websocket = "open"
    /\ src_websocket' = kind
    /\ UNCHANGED <<src_pc, src_reconnect, src_max_attempts, src_running,
                   src_connected, src_reconnect_attempts, src_stats, src_failed>>
    /\ UNCHANGED notSrc

\* the iteration over a normally closed websocket ends without raising:
\* _receive_loop returns, nothing was changed, and the head of the loop,
\* with running and connected true, calls _receive_loop again
SrcReceiveEnds ==
    /\ src_pc = "receiving"
    /\ src_websocket = "closed_ok"
    /\ src_pc' = src_loop_top(src_running, src_connected)
    /\ UNCHANGED <<src_reconnect, src_max_attempts, src_running, src_connected,
                   src_reconnect_attempts, src_websocket, src_stats, src_failed>>
    /\ UNCHANGED notSrc

\* the iteration raises: the handler of start() calls disconnect(), which
\* clears connected and suspends in websocket.close()
SrcReceiveRaises ==
    /\ src_pc = "receiving"
    /\ src_websocket = "closed_error"
    /\ src_connected' = FALSE
    /\ src_pc' = "closing"
    /\ UNCHANGED <<src_reconnect, src_max_attempts, src_running,
                   src_reconnect_attempts, src_websocket, src_stats, src_failed>>
    /\ UNCHANGED notSrc

\* disconnect() returned: with auto-reconnect count it and sleep
\* reconnect_interval, else leave the loop
SrcDisconnected ==
    /\ src_pc = "closing"
    /\ src_websocket' = "none"
    /\ IF src_reconnect
       THEN /\ src_stats' = [src_stats EXCEPT !.reconnect_count = @ + 1]
            /\ src_pc' = "retry_sleep"
       ELSE /\ src_stats' = src_stats
            /\ src_pc' = "done"
    /\ UNCHANGED <<src_reconnect, src_max_attempts, src_running, src_connected,
                   src_reconnect_attempts, src_failed>>
    /\ UNCHANGED notSrc

\* asyncio.sleep(reconnect_interval) returned; back to the head of the loop
SrcRetrySleepDone ==
    /\ src_pc = "retry_sleep"
    /\ src_pc' = src_loop_top(src_running, src_connected)
    /\ UNCHANGED <<src_reconnect, src_max_attempts, src_running, src_connected,
                   src_reconnect_attempts, src_websocket, src_stats, src_failed>>
    /\ UNCHANGED notSrc

InitLoad == lpc = "idle"

\* no sync_from_api call is between its start and its return
NoSyncInFlight == \A s \in Syncs : spc[s] \in {"idle", "synced", "failed"}

\* The server is restarted and load_from_database is called on the new
\* manager: get_all_vessels returned, the MMSI and the IMO index are
\* assigned, and the coroutine suspends in get_all_lists.
LoadVessels ==
    /\ lpc = "idle"
    /\ NoSyncInFlight
    /\ mmsi_cache' = MmsiIndex(get_all_vessels)
    /\ imo_cache' = ImoIndex(get_all_vessels)
    /\ lpc' = "get_all_lists"
    /\ UNCHANGED <<lists_cache, last_sync_time, spc, fetched, report, db, lookup>>
    /\ UNCHANGED <<serverVars, collVars, pureVars, satVars, runVars, nmeaVars,
                   ctlVars, eventVars, pushVars, srcVars, detVars>>

\* get_all_lists returned: lists_cache is assigned from every row
LoadLists ==
    /\ lpc = "get_all_lists"
    /\ lists_cache' = ListsIndex(get_all_lists)
    /\ lpc' = "loaded"
    /\ UNCHANGED <<mmsi_cache, imo_cache, last_sync_time, spc, fetched, report,
                   db, lookup>>
    /\ UNCHANGED <<serverVars, collVars, pureVars, satVars, runVars, nmeaVars,
                   ctlVars, eventVars, pushVars, srcVars, detVars>>

\* sync_from_api is called while no other call of it and no load is running
SyncStartAlone(s) ==
    /\ NoSyncInFlight
    /\ lpc # "get_all_lists"
    /\ SyncStart(s)

InitDet ==
    /\ detections = [m \in Msgs |-> NoDetection]
    /\ write_failed = [m \in Msgs |-> FALSE]

\* _save_detection: upsert_detection raised; the exception is logged and
\* dropped, and _process_message goes on to broadcast_track_update
SaveDetectionFailed(m) ==
    /\ tpc[m] = "saving"
    /\ write_failed' = [write_failed EXCEPT ![m] = TRUE]
    /\ broadcast_track_update(m, 1)
    /\ UNCHANGED detections
    /\ UNCHANGED <<connVars, connection_attempts, stats, now, hpc, hreq, health,
                   delivered, msgs, nextMsg, messages_processed>>
    /\ UNCHANGED <<collVars, pureVars, watchVars, satVars, runVars, nmeaVars,
                   ctlVars, eventVars, pushVars, srcVars, loadVars>>

InitServer ==
    /\ all_connections = {}
    /\ watchlist_connections = {}
    /\ geo_connections = <<>>
    /\ geo_watchlist_connections = <<>>
    /\ connection_attempts = [ip \in IPs |-> <<>>]
    /\ ip_connections = [ip \in IPs |-> {}]
    /\ ip_entries = {}
    /\ websocket_ip = [w \in WS |-> NoIp]
    /\ stats = [total_connections |-> 0, total_watchlist_connections |-> 0,
                total_geo_connections |-> 0, total_geo_watchlist_connections |-> 0,
                messages_sent |-> 0, messages_failed |-> 0,
                connections_rate_limited |-> 0]
    /\ now = 0
    /\ hpc = [w \in WS |-> "new"]
    /\ hreq = [w \in WS |-> NoReq]
    /\ health = [w \in WS |-> "ok"]
    /\ sendq = [w \in WS |-> <<>>]
    /\ delivered = [w \in WS |-> <<>>]
    /\ tpc = [m \in Msgs |-> "none"]
    /\ msgs = [m \in Msgs |-> NoMsg]
    /\ nextMsg = 1
    /\ messages_processed = 0
    /\ updates = [m \in Msgs |-> [pool \in Pools |-> NoUpdate]]

\* both processes as constructed
Init == InitServer /\ InitColl /\ InitPure /\ InitWatch /\ InitSat /\ InitRun /\ InitNmea /\ InitCtl /\ InitEvent /\ InitPush /\ InitSrc /\ InitLoad /\ InitDet

\* is_point_in_box called on every sampled point and pair of boxes
InitBox == InitServer /\ InitColl /\ InitWatch /\ InitSat /\ InitRun /\ InitNmea /\ InitCtl /\ InitEvent /\ InitPush /\ InitSrc /\ InitLoad /\ InitDet /\ pib \in BoxCalls

SpecBox == InitBox /\ [][NextBox]_vars

\* lookups and overlapping syncs of the watchlist while the clock advances
SpecWatch == Init /\ [][NextWatch]_vars

\* lookups, syncs and the pushes the lookups schedule
NextPush ==
    \/ NextWatch
    \/ \E i \in DOMAIN scheduled, ok \in BOOLEAN : PushVesselUpdate(i, ok)

SpecPush == Init /\ [][NextPush]_vars

(***************************************************************************)
(* Admission: every websocket asks for a pool; no message is dispatched.   *)
(***************************************************************************)
NextAdmit ==
    \/ \E w \in WS, pool \in Pools \ GeoPools : Connect(w, pool, NoBox)
    \/ \E w \in WS, pool \in GeoPools, box \in Boxes \cup InvalidBoxes :
          Connect(w, pool, box)
    \/ \E w \in WS : ConnectAccepted(w)
    \/ \E w \in WS : AcceptFailed(w)
    \/ \E w \in WS : HandlerExit(w)
    \/ Tick

SpecAdmit == Init /\ [][NextAdmit]_vars

(***************************************************************************)
(* Fan-out: FanWS websockets from different addresses subscribe, fail,     *)
(* block or leave while the dispatcher processes NumMsgs messages.         *)
(***************************************************************************)
FanClients == 1..FanWS

NextFan ==
    \/ \E w \in FanClients, pool \in Pools \ GeoPools : Connect(w, pool, NoBox)
    \/ \E w \in FanClients, pool \in GeoPools, box \in Boxes : Connect(w, pool, box)
    \/ \E w \in WS : ConnectAccepted(w)
    \/ \E w \in WS : HandlerExit(w)
    \/ \E w \in WS, kind \in {"broken", "blocked"} : ClientFault(w, kind)
    \/ \E match \in BOOLEAN, pos \in Positions : OnSatelliteMessage(match, pos)
    \/ \E m \in Msgs : ProcessMessage(m)
    \/ \E m \in Msgs : SaveDetectionDone(m)
    \/ \E m \in Msgs : GatherDone(m)
    \/ \E m \in Msgs, w \in WS : SafeSendOk(m, w)
    \/ \E m \in Msgs, w \in WS : SafeSendFailed(m, w)

SpecFan == Init /\ [][NextFan]_vars

(***************************************************************************)
(* The same fan-out for DropMsgs messages, with the progress the event     *)
(* loop and the network give: a ready task runs, a send to a healthy peer  *)
(* returns, a send to a broken peer raises.  Nothing is assumed of the     *)
(* clients, of the upstream, or of a peer that stopped reading.            *)
(***************************************************************************)
NextDrop ==
    \/ \E w \in FanClients, pool \in Pools \ GeoPools : Connect(w, pool, NoBox)
    \/ \E w \in FanClients, pool \in GeoPools, box \in Boxes : Connect(w, pool, box)
    \/ \E w \in WS : ConnectAccepted(w)
    \/ \E w \in WS : HandlerExit(w)
    \/ \E w \in WS, kind \in {"broken", "blocked"} : ClientFault(w, kind)
    \/ \E match \in BOOLEAN, pos \in Positions :
          nextMsg <= DropMsgs /\ OnSatelliteMessage(match, pos)
    \/ \E m \in Msgs : ProcessMessage(m)
    \/ \E m \in Msgs : SaveDetectionDone(m)
    \/ \E m \in Msgs : GatherDone(m)
    \/ \E m \in Msgs, w \in WS : SafeSendOk(m, w)
    \/ \E m \in Msgs, w \in WS : SafeSendFailed(m, w)

FairDrop ==
    /\ \A m \in Msgs : WF_vars(ProcessMessage(m))
    /\ \A m \in Msgs : WF_vars(SaveDetectionDone(m))
    /\ \A m \in Msgs : WF_vars(GatherDone(m))
    /\ \A m \in Msgs, w \in WS : WF_vars(SafeSendOk(m, w))
    /\ \A m \in Msgs, w \in WS : WF_vars(SafeSendFailed(m, w))

SpecDrop == Init /\ [][NextDrop]_vars

FairSpecDrop == SpecDrop /\ FairDrop

(***************************************************************************)
(* Geo fan-out: FanWS websockets subscribe to the geo pools with a plain   *)
(* or an antimeridian box while messages with and without a position are   *)
(* dispatched; every send succeeds.                                        *)
(***************************************************************************)
NextGeo ==
    \/ \E w \in FanClients, pool \in GeoPools, box \in Boxes : Connect(w, pool, box)
    \/ \E w \in WS : ConnectAccepted(w)
    \/ \E w \in WS : HandlerExit(w)
    \/ \E match \in BOOLEAN, pos \in GeoPositions : OnSatelliteMessage(match, pos)
    \/ \E m \in Msgs : ProcessMessage(m)
    \/ \E m \in Msgs : SaveDetectionDone(m)
    \/ \E m \in Msgs : GatherDone(m)
    \/ \E m \in Msgs, w \in WS : SafeSendOk(m, w)

SpecGeo == Init /\ [][NextGeo]_vars

(***************************************************************************)
(* The collettore: NumCWS websockets subscribe to the raw or the filtered  *)
(* stream, fail, block or leave while NumCMsgs messages arrive from the    *)
(* upstream sources and the clock advances.                                *)
(***************************************************************************)
NextColl ==
    \/ \E w \in CWS, stream \in Streams : OutConnect(w, stream)
    \/ \E w \in CWS : OutConnectAccepted(w)
    \/ \E w \in CWS : OutHandlerExit(w)
    \/ \E w \in CWS, kind \in {"broken", "blocked"} : OutClientFault(w, kind)
    \/ \E msg \in InboundMessages, source \in Sources :
          OnSourceMessage(msg, source)
    \/ \E m \in CMsgs : CProcessMessage(m)
    \/ \E m \in CMsgs : CGatherDone(m)
    \/ \E m \in CMsgs, w \in CWS : CSafeSendOk(m, w)
    \/ \E m \in CMsgs, w \in CWS : CSafeSendFailed(m, w)

SpecColl == Init /\ [][NextColl]_vars

(***************************************************************************)
(* The collettore with no subscriber: messages arrive and are classified   *)
(* while the clock advances, Redis expires keys and the cleanup task runs. *)
(***************************************************************************)
NextStore ==
    \/ \E msg \in InboundMessages, source \in Sources :
          OnSourceMessage(msg, source)
    \/ \E m \in CMsgs : CProcessMessage(m)
    \/ ClockTick
    \/ CleanupTask

SpecStore == Init /\ [][NextStore]_vars

(***************************************************************************)
(* The vessel-state store fed with messages for one vessel that carry,     *)
(* omit or empty the name and the position, and with one without mmsi.     *)
(***************************************************************************)
PositionOnly == Message("222", TRUE, 1000, TRUE, Deg(10, 0), Deg(20, 0), FALSE, "")
EmptyName == Message("222", TRUE, 1030, TRUE, Deg(11, 0), Deg(21, 0), TRUE, "")
Renamed == Message("222", TRUE, 1060, FALSE, 0, 0, TRUE, "BRAVO")
WithoutMmsi == Message("", TRUE, 1000, TRUE, Deg(10, 0), Deg(20, 0), TRUE, "ALPHA")

VesselMessages == {StaticOnly, PositionOnly, EmptyName, Renamed, WithoutMmsi}

NextVessel ==
    \/ \E msg \in VesselMessages, source \in Sources :
          OnSourceMessage(msg, source)
    \/ \E m \in CMsgs : CProcessMessage(m)
    \/ ClockTick
    \/ CleanupTask

SpecVessel == Init /\ [][NextVessel]_vars

\* cleanup_task loops for ever: a pass that has something to remove comes
FairVessel == WF_vars(CleanupTask)

FairSpecVessel == SpecVessel /\ FairVessel

\* the source adapter of the server with either reconnect setting, and stop()
\* called at any point of its run loop
SpecSat == Init /\ [][NextSat]_vars

FairSpecSat == SpecSat /\ FairSat

\* both runtimes from start() to the end of shutdown(), each with one
\* subscriber that connects while the runtime serves
RunClients == {1}

Serving(rt) == run_pc[rt] = "started"

NextRun ==
    \/ \E r \in BOOLEAN : ServerStart(r)
    \/ CollStart
    \/ \E w \in RunClients : Serving("server") /\ Connect(w, "all", NoBox)
    \/ \E w \in RunClients : ConnectAccepted(w)
    \/ \E w \in RunClients : HandlerExit(w)
    \/ \E w \in RunClients : Serving("collettore") /\ OutConnect(w, "raw")
    \/ \E w \in RunClients : OutConnectAccepted(w)
    \/ \E w \in RunClients : OutHandlerExit(w)
    \/ \E s \in Socks : ConnectOk(s)
    \/ ConnectFailed
    \/ BackoffDone
    \/ \E kind \in {"eof", "timeout", "error"} : ReceiveLost(kind)
    \/ \E rt \in Runtimes : StatsLoop(rt)
    \/ SyncLoop
    \/ SyncCancelled
    \/ CleanupLoop
    \/ ServerShutdown
    \/ ServerAdapterStopped
    \/ ServerShutdownDone
    \/ CollShutdown
    \/ CollShutdownDone

SpecRun == Init /\ [][NextRun]_vars

\* every await of a task returns and a cancelled task is resumed
FairRun ==
    /\ WF_vars((\E s \in Socks : ConnectOk(s)) \/ ConnectFailed)
    /\ WF_vars(BackoffDone)
    /\ WF_vars(\E kind \in {"eof", "timeout", "error"} : ReceiveLost(kind))
    /\ \A rt \in Runtimes : WF_vars(StatsLoop(rt))
    /\ WF_vars(SyncLoop)
    /\ WF_vars(SyncCancelled)
    /\ WF_vars(CleanupLoop)
    /\ WF_vars(ServerAdapterStopped)
    /\ WF_vars(ServerShutdownDone)
    /\ WF_vars(CollShutdownDone)

FairSpecRun == SpecRun /\ FairRun

\* the parser fed any sequence of sentences at one time
NextFrag == \E s \in Sentences : Parse(s)

SpecFrag == Init /\ [][NextFrag]_vars

\* the parser fed any sequence of sentences with time passing between them
NextFragClock ==
    \/ \E s \in Sentences : Parse(s)
    \/ ParserTick

SpecFragClock == Init /\ [][NextFragClock]_vars

\* subscribers of the all and watchlist pools that send control frames
NextCtl ==
    \/ \E w \in FanClients, pool \in Pools \ GeoPools : Connect(w, pool, NoBox)
    \/ \E w \in WS : ConnectAccepted(w)
    \/ \E w \in WS : HandlerExit(w)
    \/ \E w \in WS, kind \in FrameKinds : ReceiveFrame(w, kind)

SpecCtl == Init /\ [][NextCtl]_vars

\* broadcast_track_update called with every set of optional keys
NextEvent == \E keys \in SUBSET OptionalKeys, match \in BOOLEAN : BuildTrackUpdate(keys, match)

SpecEvent == Init /\ [][NextEvent]_vars

(***************************************************************************)
(* One source adapter of the collettore against an upstream that accepts,  *)
(* refuses and closes connections.                                         *)
(***************************************************************************)
NextSrc ==
    \/ \E r \in BOOLEAN, n \in MaxAttemptsChoices : SrcStart(r, n)
    \/ SrcConnectOk
    \/ SrcConnectFailed
    \/ SrcBackoffDone
    \/ SrcMessage
    \/ \E kind \in {"closed_ok", "closed_error"} : SrcUpstreamCloses(kind)
    \/ SrcReceiveEnds
    \/ SrcReceiveRaises
    \/ SrcDisconnected
    \/ SrcRetrySleepDone

SpecSrc == Init /\ [][NextSrc]_vars

\* the event loop runs a ready coroutine, a sleep ends, close() returns and
\* a connection attempt has an outcome; nothing is assumed of the upstream
FairSrc ==
    /\ WF_vars(SrcConnectOk \/ SrcConnectFailed)
    /\ WF_vars(SrcBackoffDone)
    /\ WF_vars(SrcReceiveEnds)
    /\ WF_vars(SrcReceiveRaises)
    /\ WF_vars(SrcDisconnected)
    /\ WF_vars(SrcRetrySleepDone)

FairSpecSrc == SpecSrc /\ FairSrc

(***************************************************************************)
(* Restart: sync_from_api calls that run one after the other, lookups, and *)
(* one load_from_database on the tables the syncs have written.            *)
(***************************************************************************)
NextRestart ==
    \/ \E message \in LookupMessages : CheckMessage(message)
    \/ \E s \in Syncs : SyncStartAlone(s)
    \/ \E s \in Syncs, vv \in Versions, lv \in Versions : FetchAllOk(s, vv, lv)
    \/ \E s \in Syncs : FetchAllFailed(s)
    \/ \E s \in Syncs : UpsertListsOk(s)
    \/ \E s \in Syncs : UpsertVesselsOk(s)
    \/ LoadVessels
    \/ LoadLists

SpecRestart == Init /\ [][NextRestart]_vars

(***************************************************************************)
(* Detections: FanWS websockets subscribe while DropMsgs messages, matched *)
(* or not, with and without a position, are processed; the write of a      *)
(* detection returns or raises.                                            *)
(***************************************************************************)
NextDetect ==
    \/ \E w \in FanClients, pool \in Pools \ GeoPools : Connect(w, pool, NoBox)
    \/ \E w \in WS : ConnectAccepted(w)
    \/ \E w \in WS : HandlerExit(w)
    \/ \E match \in BOOLEAN, pos \in Positions :
          nextMsg <= DropMsgs /\ OnSatelliteMessage(match, pos)
    \/ \E m \in Msgs : ProcessMessage(m)
    \/ \E m \in Msgs : SaveDetectionDone(m)
    \/ \E m \in Msgs : SaveDetectionFailed(m)
    \/ \E m \in Msgs : GatherDone(m)
    \/ \E m \in Msgs, w \in WS : SafeSendOk(m, w)

SpecDetect == Init /\ [][NextDetect]_vars

(***************************************************************************)
(* Claims about the server fan-out.                                        *)
(***************************************************************************)
\* the open subscriptions of one client address, over the four pools
OpenFrom(ip) == {w \in AllMembers : ClientIp(w) = ip}

\* C1: for every client address, the number of open subscriptions from it,
\* summed over the all, watchlist, geo and geo_watchlist pools, never
\* exceeds max_connections_per_ip.
C1_PerIpCap ==
    \A ip \in IPs : Cardinality(OpenFrom(ip)) <= max_connections_per_ip

\* C2: a subscriber is sent the events destined to it in the order in which
\* the dispatcher was handed them (messages are numbered in that order).
C2_DeliveryOrder ==
    \A w \in WS : \A i, j \in 1..Len(delivered[w]) :
        i < j => delivered[w][i] < delivered[w][j]

\* C8: a step in which a send to subscriber w raises leaves w in no pool and
\* in no per-address set, adds exactly 1 to messages_failed and leaves
\* messages_sent as it was.
SendRaised(w) ==
    /\ health[w] = "broken"
    /\ sendq[w] # <<>>
    /\ sendq'[w] = Tail(sendq[w])

C8_FailedSendDrops ==
    [][\A w \in WS : SendRaised(w) =>
          /\ w \notin AllMembers'
          /\ \A ip \in IPs : w \notin ip_connections'[ip]
          /\ stats'.messages_failed = stats.messages_failed + 1
          /\ stats'.messages_sent = stats.messages_sent]_vars

\* C8 witness: a send to an admitted subscriber raised while its handler was
\* still running; the subscriber is out of its pool and the failure counted.
C8_Witness ==
    \E w \in WS :
        /\ hpc[w] = "open"
        /\ health[w] = "broken"
        /\ websocket_ip[w] = NoIp
        /\ w \notin AllMembers
        /\ stats.messages_failed = 1

\* C9: once a send to a subscriber that stopped reading is pending, the
\* subscriber is eventually out of every pool, and every broadcast that was
\* started eventually returns.
C9_BlockedDropped ==
    /\ \A w \in WS :
          (health[w] = "blocked" /\ sendq[w] # <<>>) ~> (w \notin AllMembers)
    /\ \A m \in Msgs : (tpc[m] \in Pools) ~> (tpc[m] = "done")

\* the pools broadcast_track_update has still to visit for message m
LaterStages(m) == {j \in 1..Len(StageSeq) : j > StageIndex(tpc[m])}

\* C10: while an event is being fanned out, every healthy subscriber that is
\* a recipient of it (a send to it was started, or it is a recipient in a
\* pool still to be visited) is eventually sent the event, unless it leaves
\* or fails itself; whatever happens to the sends to other subscribers.
C10_OthersNotDelayed ==
    \A m \in Msgs, w \in WS :
        ( /\ tpc[m] \in Pools
          /\ health[w] = "ok"
          /\ \/ InSeq(m, sendq[w])
             \/ \E j \in LaterStages(m) : w \in Recipients(StageSeq[j], msgs[m]) )
        ~> ( \/ InSeq(m, delivered[w])
             \/ health[w] # "ok"
             \/ w \notin AllMembers )

(***************************************************************************)
(* Claims about the collettore pipeline.                                   *)
(***************************************************************************)
\* the messages whose dedup check has run
Classified == {m \in CMsgs : class[m] # "none"}

\* the dedup key of an arrived message
KeyOf(m) == DedupKey(cmsgs[m].msg, cmsgs[m].arrived)

\* C3: two messages of the same upstream source have their dedup checks
\* (and vessel updates) in their order of arrival; messages are numbered in
\* that order.
C3_SourceOrder ==
    \A i, j \in 1..Len(dedup_order) :
        (i < j /\ cmsgs[dedup_order[i]].source = cmsgs[dedup_order[j]].source)
            => dedup_order[i] < dedup_order[j]

\* C4: a message whose processing has completed was either counted as a
\* duplicate, with no vessel update and no filtered fan-out, or counted as
\* unique, with a vessel update and a filtered fan-out; the two counters
\* count exactly these messages, a vessel's message_count counts its unique
\* messages only, and with no message in flight
\* total_received = duplicates + unique.
DuplicateOutcome(m) ==
    /\ class[m] = "duplicate"
    /\ plog[m] = <<"raw", "raw_done", "dedup">>

UniqueOutcome(m) ==
    /\ class[m] = "unique"
    /\ plog[m] = <<"raw", "raw_done", "dedup", "update", "filtered",
                   "filtered_done">>
    /\ vessels[cmsgs[m].msg.mmsi].live
    /\ cmsgs[m].source \in vessels[cmsgs[m].msg.mmsi].sources
    /\ cmsgs[m].msg.mmsi \in active_vessels

InFlight == {m \in CMsgs : cpc[m] \in Streams}

C5_FirstIsUnique ==
    \A m1, m2 \in Classified :
        (/\ m1 < m2
         /\ KeyOf(m1) = KeyOf(m2)
         /\ cmsgs[m2].arrived - cmsgs[m1].arrived < dedup_time_window
         /\ \A m0 \in CMsgs : (m0 < m1 /\ cpc[m0] # "none") => KeyOf(m0) # KeyOf(m1))
            => (class[m1] = "unique" /\ class[m2] = "duplicate")

\* the seed scenario S1: exactly its two messages were fed, in its order,
\* and both went through the dedup check
S1Fed ==
    /\ cnext = 3
    /\ cmsgs[1].msg = S1First
    /\ cmsgs[2].msg = S1Second
    /\ {1, 2} \subseteq Classified

\* C6 as stated: in scenario S1 the first message is unique and the second a
\* duplicate, the two having the same dedup key.
C6_S1SecondDuplicate ==
    S1Fed => /\ class[1] = "unique"
             /\ class[2] = "duplicate"
             /\ KeyOf(1) = KeyOf(2)

\* C6 as the code has it: in scenario S1 both messages are unique; the
\* 4-decimal rounding gives them the same position, but int(ts // W) * W
\* puts timestamp 1000 in bucket 990 and timestamp 1020 in bucket 1020.
C6_S1BothUnique ==
    S1Fed => /\ class[1] = "unique"
             /\ class[2] = "unique"
             /\ KeyOf(1) = <<"111", 990, Deg(10, 0), Deg(20, 0)>>
             /\ KeyOf(2) = <<"111", 1020, Deg(10, 0), Deg(20, 0)>>

C6_Witness == S1Fed /\ cpc[2] = "done" /\ class[2] = "unique"

\* C7: when the dedup check of a message runs, its raw broadcast has
\* returned (no send of it to a raw subscriber is pending); every message is
\* broadcast to the raw pool once; a duplicate is never broadcast to the
\* filtered pool.
TimesLogged(m, step) ==
    Cardinality({i \in 1..Len(plog[m]) : plog[m][i] = step})

C7_RawBeforeDedup ==
    /\ \A m \in Classified :
          /\ SubSeq(plog[m], 1, 3) = <<"raw", "raw_done", "dedup">>
          /\ \A w \in CWS : InSeq(m, csendq[w]) => cpc[m] = "filtered"
    /\ \A m \in CMsgs :
          /\ TimesLogged(m, "raw") = (IF cpc[m] \in {"none", "spawned"} THEN 0 ELSE 1)
          /\ class[m] = "duplicate" =>
                /\ TimesLogged(m, "filtered") = 0
                /\ cpc[m] = "done"
                /\ \A w \in CWS : ~InSeq(m, csendq[w])
    /\ proc_stats.broadcast_raw = Cardinality(Classified)

C7_Witness ==
    \E m \in CMsgs :
        /\ class[m] = "duplicate"
        /\ out_stats.messages_sent_raw >= 2
        /\ out_stats.messages_sent_filtered >= 1

(***************************************************************************)
(* Claims about admission.                                                 *)
(***************************************************************************)
\* the step in which the endpoint and connect() decide on websocket w
Decided(w) == hpc[w] = "new" /\ hpc'[w] # "new"

\* C11: the request is refused by the first failing check in the order
\* per-address cap, per-address rate limit, pool capacity, bounding box, and
\* goes on to accept() when none fails.
C11_CheckOrder ==
    [][\A w \in WS : Decided(w) =>
          hpc'[w] =
            IF CapReached(ClientIp(w)) THEN "refused_ip_cap"
            ELSE IF RateExceeded(ClientIp(w)) THEN "refused_rate"
            ELSE IF PoolFull(hreq'[w].pool) THEN "refused_pool"
            ELSE IF InvalidBox(hreq'[w].pool, hreq'[w].box) THEN "refused_box"
            ELSE "accepting"]_vars

\* C12: for every address, at most connection_rate_limit attempts that passed
\* the rate-limit check lie in the window (now - connection_rate_window, now];
\* the recorded attempts change only by a decision on a websocket of that
\* address, which drops the ones that left the window and records a passing
\* attempt at the end; and a request that reaches _check_rate_limit when
\* connection_rate_limit attempts are in the window is refused and counted
\* in connections_rate_limited.
RecordedInWindow(ip) ==
    /\ Len(PrunedAttempts(ip)) <= connection_rate_limit
    /\ \A i \in 1..Len(connection_attempts[ip]) : connection_attempts[ip][i] <= now

RateChecked(w) == Decided(w) /\ hpc'[w] # "refused_box"

C12_RateLimit ==
    /\ [](\A ip \in IPs : RecordedInWindow(ip))
    /\ [][\A ip \in IPs : connection_attempts'[ip] # connection_attempts[ip] =>
             /\ \E w \in WS : RateChecked(w) /\ ClientIp(w) = ip
             /\ connection_attempts'[ip] \in
                   {PrunedAttempts(ip), Append(PrunedAttempts(ip), now)}]_vars
    /\ [][\A w \in WS : RateChecked(w) =>
             IF RateExceeded(ClientIp(w))
             THEN /\ hpc'[w] \in {"refused_ip_cap", "refused_rate"}
                  /\ stats'.connections_rate_limited =
                        stats.connections_rate_limited + 1
                  /\ Len(connection_attempts'[ClientIp(w)]) <=
                        Len(connection_attempts[ClientIp(w)])
             ELSE hpc'[w] \in {"accepting", "refused_pool"} =>
                     connection_attempts'[ClientIp(w)] =
                        Append(PrunedAttempts(ClientIp(w)), now)]_vars

C12_Witness ==
    \E w \in WS :
        /\ hpc[w] = "refused_rate"
        /\ stats.connections_rate_limited >= 1
        /\ Len(PrunedAttempts(ClientIp(w))) = connection_rate_limit

\* C13: no pool with a configured limit ever holds more subscribers than the
\* limit: the four pools of the server and the two streams of the
\* collettore.
C13_PoolCapacity ==
    /\ \A pool \in Pools : PoolHasLimit(pool) =>
          Cardinality(PoolMembers(pool)) <= PoolLimit(pool)
    /\ \A stream \in Streams :
          Cardinality(StreamMembers(stream)) <= out_max_clients

\* C14: a geo or geo_watchlist request whose box has min_lat >= max_lat is
\* refused by the endpoint (close code 1008), is in no pool and holds no
\* per-address slot; every box in a geo pool has min_lat < max_lat; and the
\* endpoint does not refuse a box for having min_lon > max_lon.
AskedInvalidBox(w) ==
    hpc[w] # "new" /\ InvalidBox(hreq[w].pool, hreq[w].box)

HoldsNoSlot(w) ==
    /\ w \notin AllMembers
    /\ websocket_ip[w] = NoIp
    /\ \A ip \in IPs : w \notin ip_connections[ip]

C14_InvalidBoxRefused ==
    /\ [](\A w \in WS : AskedInvalidBox(w) =>
             hpc[w] = "refused_box" /\ HoldsNoSlot(w))
    /\ [](\A w \in DOMAIN geo_connections :
             geo_connections[w].min_lat < geo_connections[w].max_lat)
    /\ [](\A w \in DOMAIN geo_watchlist_connections :
             geo_watchlist_connections[w].min_lat <
                geo_watchlist_connections[w].max_lat)
    /\ [][\A w \in WS :
             (/\ Decided(w)
              /\ hreq'[w].pool \in GeoPools
              /\ hreq'[w].box.min_lat < hreq'[w].box.max_lat)
                => hpc'[w] # "refused_box"]_vars

C14_Witness ==
    /\ \E w \in WS : /\ hpc[w] = "refused_box"
                     /\ hreq[w].box.min_lat = hreq[w].box.max_lat
    /\ \E w \in DOMAIN geo_connections \cup DOMAIN geo_watchlist_connections :
          hreq[w].box.min_lon > hreq[w].box.max_lon

(***************************************************************************)
(* Claims about the geographic filter and the recipients of an event.      *)
(***************************************************************************)
\* the containment test as the claim words it
InBoxAsClaimed(lat, lon, box) ==
    /\ box.min_lat <= lat /\ lat <= box.max_lat
    /\ IF box.min_lon <= box.max_lon
       THEN box.min_lon <= lon /\ lon <= box.max_lon
       ELSE lon >= box.min_lon \/ lon <= box.max_lon

S4Box == [min_lat |-> -10, max_lat |-> 10, min_lon |-> 170, max_lon |-> -170]

\* the step in which the broadcast of message m to the pool creates its sends
BroadcastTo(m, pool) == tpc[m] # pool /\ tpc'[m] = pool

\* C15: the broadcast of an event to the geo pool creates a send to exactly
\* the subscribers whose box contains the event's position in the sense of
\* the claim, and only events with a position are sent or delivered to a
\* geo subscriber; for the box (-10, 10, 170, -170), (0, 175) and (0, -175)
\* are inside and (0, 0) is outside.
C15_PointInBox ==
    /\ [][\A m \in Msgs : BroadcastTo(m, "geo") =>
             \A w \in WS :
                 (sendq'[w] # sendq[w]) <=>
                    (/\ w \in DOMAIN geo_connections
                     /\ msgs[m].has_pos
                     /\ InBoxAsClaimed(msgs[m].lat, msgs[m].lon,
                                       geo_connections[w]))]_vars
    /\ [](\A w \in DOMAIN geo_connections : \A m \in Msgs :
             (InSeq(m, sendq[w]) \/ InSeq(m, delivered[w])) =>
                 /\ msgs[m].has_pos
                 /\ InBoxAsClaimed(msgs[m].lat, msgs[m].lon, geo_connections[w]))
    /\ [](/\ is_point_in_box(0, 175, S4Box)
          /\ is_point_in_box(0, -175, S4Box)
          /\ ~is_point_in_box(0, 0, S4Box))

C15_Witness ==
    \E w \in DOMAIN geo_connections : \E m1, m2 \in Msgs :
        /\ geo_connections[w] = S4Box
        /\ delivered[w] = <<m1>>
        /\ msgs[m1].lon = -175
        /\ tpc[m2] = "done" /\ msgs[m2].has_pos /\ msgs[m2].lon = 0

\* both calls returned for a point within the box's latitudes
BothReturned ==
    /\ pib[1].out \in {"true", "false"} /\ pib[2].out \in {"true", "false"}
    /\ pib[1].box.min_lat <= pib[1].lat /\ pib[1].lat <= pib[1].box.max_lat

\* C16 as stated: for every a, b and lon, edges and a = b included, the box
\* (a, b) contains lon exactly when the swapped box (b, a) does not.
C16_SwapComplement ==
    BothReturned => ((pib[1].out = "true") <=> (pib[2].out = "false"))

\* C16 amended: the swapped box is the complement away from the edges, for
\* a # b and lon different from both; at lon = a or lon = b both boxes
\* contain the point; for a = b the two boxes give the same answer.
C16_SwapComplementOffEdges ==
    BothReturned =>
        LET a == pib[1].box.min_lon
            b == pib[1].box.max_lon
            lon == pib[1].lon
        IN  /\ (a # b /\ lon # a /\ lon # b) =>
                   ((pib[1].out = "true") <=> (pib[2].out = "false"))
            /\ (lon = a \/ lon = b) => (pib[1].out = "true" /\ pib[2].out = "true")
            /\ (a = b) => (pib[1].out = pib[2].out)

C16_Witness ==
    /\ BothReturned
    /\ pib[1].box.min_lon < pib[1].box.max_lon
    /\ pib[1].lon = pib[1].box.min_lon
    /\ pib[1].out = "true" /\ pib[2].out = "true"

\* the recipients of an event in a pool as the claim lists them
RecipientsAsClaimed(pool, msg) ==
    CASE pool = "all" -> all_connections
      [] pool = "watchlist" ->
           {w \in watchlist_connections : msg.match}
      [] pool = "geo" ->
           {w \in DOMAIN geo_connections :
               /\ msg.has_pos
               /\ InBoxAsClaimed(msg.lat, msg.lon, geo_connections[w])}
      [] pool = "geo_watchlist" ->
           {w \in DOMAIN geo_watchlist_connections :
               /\ msg.match /\ msg.has_pos
               /\ InBoxAsClaimed(msg.lat, msg.lon, geo_watchlist_connections[w])}

\* the pools broadcast_track_update passes without a broadcast in this step
PassedPools(m) ==
    IF tpc'[m] = tpc[m] \/ tpc'[m] \notin Pools \cup {"done"} THEN {}
    ELSE LET from == IF tpc[m] \in Pools THEN StageIndex(tpc[m]) ELSE 0
             to == IF tpc'[m] = "done" THEN Len(StageSeq) + 1
                   ELSE StageIndex(tpc'[m])
         IN  {StageSeq[j] : j \in {k \in 1..Len(StageSeq) : from < k /\ k < to}}

\* C17: the broadcast of an event to a pool starts a send to exactly the
\* subscribers the claim lists for that pool, a pool is passed over only
\* when that set is empty, a send is started in no other way, and the dict
\* handed to the watchlist and geo_watchlist pools carries the list_id of
\* the match while the one handed to the other pools has none.
C17_Recipients ==
    /\ [][\A m \in Msgs : \A pool \in Pools :
             /\ BroadcastTo(m, pool) =>
                   /\ \A w \in WS : (sendq'[w] # sendq[w]) <=>
                                       w \in RecipientsAsClaimed(pool, msgs[m])
                   /\ updates'[m][pool] # NoUpdate
             /\ pool \in PassedPools(m) =>
                   RecipientsAsClaimed(pool, msgs[m]) = {}]_vars
    /\ [][\A w \in WS : Len(sendq'[w]) > Len(sendq[w]) =>
             \E m \in Msgs : \E pool \in Pools :
                 /\ BroadcastTo(m, pool)
                 /\ sendq'[w] = Append(sendq[w], m)
                 /\ w \in RecipientsAsClaimed(pool, msgs[m])]_vars
    /\ [](\A m \in Msgs : \A pool \in Pools :
             updates[m][pool] # NoUpdate =>
                 /\ updates[m][pool].type = "track_update"
                 /\ updates[m][pool].list_id =
                       IF pool \in {"watchlist", "geo_watchlist"}
                       THEN MatchListId ELSE "absent"
                 /\ pool \in {"watchlist", "geo_watchlist"} =>
                       updates[m][pool].watchlist)

C17_Witness ==
    \E m \in Msgs : \E w1 \in watchlist_connections :
        \E w2 \in DOMAIN geo_watchlist_connections :
            /\ tpc[m] = "done"
            /\ delivered[w1] = <<m>> /\ delivered[w2] = <<m>>
            /\ updates[m]["watchlist"].list_id = MatchListId
            /\ updates[m]["geo_watchlist"].list_id = MatchListId
            /\ updates[m]["all"] = NoUpdate

(***************************************************************************)
(* Claims about the watchlist.                                             *)
(***************************************************************************)
\* the list metadata the indexes hold for a list_id, None where they hold none
MetadataOf(list_id) ==
    IF list_id \in DOMAIN lists_cache
    THEN lists_cache[list_id] ELSE [list_name |-> 0, color |-> 0]

\* C18: a check_message whose MMSI is in the MMSI index returns that
\* entry's list and metadata with matched_by "mmsi" whatever the IMO; one
\* whose MMSI is not in the index and whose IMO is in the IMO index returns
\* that entry with matched_by "imo" and the message's MMSI when it has one;
\* otherwise it returns none.
C18_LookupPrecedence ==
    [][lookup' # lookup =>
         LET mmsi == lookup'.mmsi
             imo == lookup'.imo
             match == lookup'.match
         IN  IF mmsi \in DOMAIN mmsi_cache
             THEN /\ match.found /\ match.matched_by = "mmsi"
                  /\ match.mmsi = mmsi
                  /\ match.list_id = mmsi_cache[mmsi]
                  /\ match.list_name = MetadataOf(mmsi_cache[mmsi]).list_name
                  /\ match.color = MetadataOf(mmsi_cache[mmsi]).color
             ELSE IF imo \in DOMAIN imo_cache
             THEN /\ match.found /\ match.matched_by = "imo"
                  /\ match.imo = imo
                  /\ match.mmsi = mmsi
                  /\ match.list_id = imo_cache[imo]
                  /\ match.list_name = MetadataOf(imo_cache[imo]).list_name
                  /\ match.color = MetadataOf(imo_cache[imo]).color
             ELSE ~match.found]_vars

C18_Witness ==
    /\ lookup.mmsi = "111" /\ lookup.imo = "9002"
    /\ "9002" \in DOMAIN imo_cache /\ imo_cache["9002"] = "A"
    /\ lookup.match.matched_by = "mmsi" /\ lookup.match.list_id = "B"

\* the three indexes are the ones the sync call s assigned
IndexesOf(s) ==
    /\ spc[s] = "synced"
    /\ mmsi_cache = MmsiIndex(ApiVessels(fetched[s].vessels))
    /\ imo_cache = ImoIndex(ApiVessels(fetched[s].vessels))
    /\ lists_cache = ListsIndex(ApiLists(fetched[s].lists))

\* the match is what the data of the sync call s gives for the message
MatchFrom(s, match) ==
    LET index == IF match.matched_by = "mmsi"
                 THEN MmsiIndex(ApiVessels(fetched[s].vessels))
                 ELSE ImoIndex(ApiVessels(fetched[s].vessels))
        key == IF match.matched_by = "mmsi" THEN match.mmsi ELSE match.imo
        lists == ListsIndex(ApiLists(fetched[s].lists))
    IN  /\ spc[s] = "synced"
        /\ key \in DOMAIN index /\ match.list_id = index[key]
        /\ IF match.list_id \in DOMAIN lists
           THEN /\ match.list_name = lists[match.list_id].list_name
                /\ match.color = lists[match.list_id].color
           ELSE match.list_name = 0 /\ match.color = 0

\* C19: at every moment the three indexes are the empty ones of the
\* constructor or all three the ones a single sync_from_api call built from
\* what it fetched, and every match a lookup returns pairs a vessel entry
\* with the list metadata of that same call, however the syncs overlap.
C19_AtomicReplacement ==
    /\ [](\/ mmsi_cache = <<>> /\ imo_cache = <<>> /\ lists_cache = <<>>
          \/ \E s \in Syncs : IndexesOf(s))
    /\ [][(lookup' # lookup /\ lookup'.match.found) =>
             \E s \in Syncs : IndexesOf(s) /\ MatchFrom(s, lookup'.match)]_vars

C19_Witness ==
    /\ spc[1] = "synced" /\ fetched[1] = [vessels |-> 1, lists |-> 1]
    /\ spc[2] = "upsert_vessels" /\ fetched[2] = [vessels |-> 2, lists |-> 2]
    /\ 2 \in db.lists
    /\ IndexesOf(1)
    /\ lookup.match.found /\ MatchFrom(1, lookup.match)

\* the sync call s returns from its except branch in this step
SyncFails(s) == spc[s] # "failed" /\ spc'[s] = "failed"

\* C20: a sync_from_api call that fails, in fetch_all or in either upsert,
\* returns a report with success false and leaves the three indexes and
\* last_sync_time as they are; the indexes and last_sync_time change only
\* in the step in which a call completes successfully, so no step of a
\* failing call touches them.
C20_FailedSyncKeepsIndexes ==
    /\ [][\A s \in Syncs : SyncFails(s) =>
             /\ UNCHANGED cacheVars
             /\ report'[s].returned /\ ~report'[s].success]_vars
    /\ [][cacheVars' # cacheVars =>
             \E s \in Syncs : spc[s] = "upsert_vessels" /\ spc'[s] = "synced"
                              /\ report'[s].success]_vars
    /\ [](\A s \in Syncs : report[s].returned =>
             (report[s].success <=> spc[s] = "synced"))

C20_Witness ==
    /\ IndexesOf(1) /\ fetched[1] = [vessels |-> 1, lists |-> 1]
    /\ spc[2] = "failed" /\ fetched[2] = [vessels |-> 2, lists |-> 2]
    /\ 2 \in db.lists /\ 2 \notin db.vessels
    /\ last_sync_time = 0 /\ now = 1
    /\ ~report[2].success
    /\ lookup.mmsi = "111" /\ lookup.match.list_id = "A"

(***************************************************************************)
(* Claims about the collettore's vessel-state and dedup stores.            *)
(***************************************************************************)
\* process_message of message m reaches update_vessel in this step
Updates(m) == class[m] = "none" /\ class'[m] = "unique"

\* C21: an update for an MMSI keeps a stored non-empty name when the
\* message omits the name or carries it empty, overwrites the position when
\* the message has one and keeps it otherwise, and raises message_count by
\* exactly 1; an update without mmsi leaves the vessel store and
\* active_vessels as they are, and nothing but an update or the expiry of
\* the record changes a record.
C21_VesselMerge ==
    /\ [][\A m \in CMsgs : Updates(m) =>
             LET msg == cmsgs[m].msg IN
             IF msg.mmsi = ""
             THEN vessels' = vessels /\ active_vessels' = active_vessels
             ELSE LET cur == vessels[msg.mmsi]
                      new == vessels'[msg.mmsi]
                  IN  /\ new.live
                      /\ new.message_count = cur.message_count + 1
                      /\ (cur.name # "" /\ (~msg.has_name \/ msg.name = ""))
                            => new.name = cur.name
                      /\ (msg.has_name /\ msg.name # "") => new.name = msg.name
                      /\ msg.has_pos =>
                            new.has_pos /\ new.lat = msg.lat /\ new.lon = msg.lon
                      /\ ~msg.has_pos =>
                            /\ new.has_pos = cur.has_pos
                            /\ new.lat = cur.lat /\ new.lon = cur.lon
                      /\ \A x \in MMSIs \ {msg.mmsi} : vessels'[x] = vessels[x]]_vars
    /\ [][\A x \in MMSIs : vessels'[x] # vessels[x] =>
             \/ \E m \in CMsgs : Updates(m) /\ cmsgs[m].msg.mmsi = x
             \/ vessels[x].live /\ vessels'[x] = NoVessel /\ cnow' > cnow]_vars

C21_Witness ==
    /\ cmsgs[1].msg = StaticOnly /\ cmsgs[2].msg = EmptyName
    /\ class[1] = "unique" /\ class[2] = "unique"
    /\ vessels["222"].live
    /\ vessels["222"].name = "ALPHA"
    /\ vessels["222"].lat = Deg(11, 0)
    /\ vessels["222"].message_count = 2

\* the record of MMSI x has expired and x is still listed in active_vessels
Stale(x) == x \in active_vessels /\ ~vessels[x].live

\* C22: every update for an MMSI sets the record to expire E seconds later;
\* a record is gone once E seconds have passed without an update; an MMSI
\* whose record is gone is eventually removed from active_vessels by a
\* cleanup pass unless a new update revives it; and active_vessels loses an
\* MMSI only when its record is gone.
C22_VesselExpiry ==
    /\ [][\A m \in CMsgs : (Updates(m) /\ cmsgs[m].msg.mmsi # "") =>
             /\ vessels'[cmsgs[m].msg.mmsi].exp = cnow + vessel_expire_after
             /\ cmsgs[m].msg.mmsi \in active_vessels']_vars
    /\ [](\A x \in MMSIs : vessels[x].live =>
             (cnow < vessels[x].exp /\ vessels[x].exp <= cnow + vessel_expire_after))
    /\ [][\A x \in active_vessels : x \notin active_vessels' =>
             (~vessels[x].live /\ \A y \in active_vessels : Stale(y) => y \notin active_vessels')]_vars
    /\ \A x \in MMSIs : Stale(x) ~> ~Stale(x)

C22_Witness ==
    /\ class[1] = "unique" /\ cmsgs[1].msg.mmsi = "222"
    /\ cnow >= cmsgs[1].arrived + vessel_expire_after
    /\ ~vessels["222"].live
    /\ "222" \notin active_vessels
    /\ cnext = 2

\* the dedup check of message m runs in this step
Checks(m) == class[m] = "none" /\ class'[m] # "none"

\* C23: a dedup check classifies the message duplicate exactly when its key
\* is in the store; a unique message inserts its key to expire W x M seconds
\* later and a duplicate hit leaves the store as it is; a key is in the
\* store exactly until its W x M seconds are over, so a message with the
\* same key checked after that is unique again.
C23_DedupTtl ==
    /\ [][\A m \in CMsgs : Checks(m) =>
             LET key == DedupKey(cmsgs[m].msg, cnow) IN
             /\ class'[m] = "duplicate" <=> (\E e \in dedup : e.key = key)
             /\ class'[m] = "duplicate" => dedup' = dedup
             /\ class'[m] = "unique" =>
                   dedup' = dedup \cup
                      {[key |-> key,
                        exp |-> cnow + dedup_time_window * dedup_ttl_multiplier]}]_vars
    /\ [][dedup' # dedup =>
             \/ \E m \in CMsgs : Checks(m)
             \/ cnow' > cnow /\ dedup' = {e \in dedup : e.exp > cnow'}]_vars
    /\ [](\A e \in dedup :
             /\ cnow < e.exp
             /\ e.exp <= cnow + dedup_time_window * dedup_ttl_multiplier
             /\ \A f \in dedup : f.key = e.key => f = e)

C23_Witness ==
    /\ cmsgs[1].msg = S1First /\ cmsgs[2].msg = S1First
    /\ class[1] = "unique" /\ class[2] = "unique"
    /\ dedup = {[key |-> DedupKey(S1First, 0),
                 exp |-> ClockStart + 2 * dedup_time_window * dedup_ttl_multiplier]}

(***************************************************************************)
(* Claims about the source adapter.                                        *)
(***************************************************************************)
\* the connect attempt in flight fails
ConnectFails == apc = "connecting" /\ apc' # "connecting" /\ writer' = writer

\* the established connection is lost by EOF, read timeout or receive error
ConnectionLost == apc = "receiving" /\ connected /\ ~connected' /\ running'

\* the connect attempt in flight succeeds
ConnectSucceeds == apc = "connecting" /\ writer' \notin {0, writer}

\* the adapter starts to wait min(R * 2^attempt, 60) with the current
\* attempt and increments attempt
BacksOff ==
    /\ apc' = "backoff"
    /\ wait_time' = Min(reconnect_interval * Pow2(reconnect_attempts), max_wait)
    /\ reconnect_attempts' = reconnect_attempts + 1

\* C24: with auto_reconnect true, on every failure from Connecting or from
\* Connected the adapter waits min(R * 2^attempt, 60 s) with the current
\* attempt, increments attempt and then goes to Connecting; every successful
\* connect resets attempt to 0; the wait never exceeds 60 s.
C24_ReconnectBackoff ==
    /\ [][reconnect /\ running /\ (ConnectFails \/ ConnectionLost) => BacksOff]_vars
    /\ [][running /\ apc = "backoff" /\ apc' # "backoff" => apc' = "connecting"]_vars
    /\ [][ConnectSucceeds => reconnect_attempts' = 0]_vars
    /\ [](wait_time <= max_wait)

\* C25: with auto_reconnect false, any failure from Connecting or from
\* Connected makes the run loop terminate without a further connection
\* attempt.
C25_NoReconnectTerminates ==
    [][~reconnect /\ running /\ (ConnectFails \/ ConnectionLost) => apc' = "exited"]_vars

\* stop() has been called
Stopped == stop_pc # "none"

\* C26: after stop(), in every interleaving with the run loop, the loop
\* eventually exits, no new connection attempt is started, and once the loop
\* has exited and stop() has returned no connection opened by the adapter
\* is open and connected is false.
C26_StopCancels ==
    /\ Stopped ~> (apc = "exited")
    /\ [][Stopped => ~(apc # "connecting" /\ apc' = "connecting")]_vars
    /\ [](stop_pc = "done" /\ apc = "exited"
            => ~connected /\ \A s \in Socks : sock[s] # "open")

(***************************************************************************)
(* Claims about shutdown.                                                  *)
(***************************************************************************)
\* shutdown() of the runtime has completed
ShutDown(rt) == run_pc[rt] = "done"

ServerPools ==
    all_connections \cup watchlist_connections \cup DOMAIN geo_connections
        \cup DOMAIN geo_watchlist_connections

\* C27: after shutdown() of the server and of the collettore has completed,
\* every subscription pool is empty and no subscriber is left connected
\* without having been closed.
C27_ShutdownClosesSubscriptions ==
    /\ ShutDown("server") => ServerPools = {} /\ \A w \in WS : hpc[w] # "open"
    /\ ShutDown("collettore") =>
          /\ raw_connections \cup filtered_connections = {}
          /\ \A w \in CWS : chpc[w] # "open"

\* every long-running task the runtime started has ended
TasksExited(rt) ==
    IF rt = "server"
    THEN apc = "exited" /\ task["server_stats"] = "exited" /\ task["sync"] = "exited"
    ELSE task["cleanup"] = "exited" /\ task["collettore_stats"] = "exited"

\* C28: once shutdown() has been called, every task started by the runtime
\* (adapter loop, vessel cleanup task, statistics loop, scheduled sync loop)
\* eventually terminates.
C28_TasksExit == \A rt \in Runtimes : shutdown_requested[rt] ~> TasksExited(rt)

(***************************************************************************)
(* Claims about the NMEA fragment buffer.                                  *)
(***************************************************************************)
\* parse is called with a valid sentence of a multi-fragment message
FedFragment == calls' = calls + 1 /\ fed'[1].valid /\ fed'[1].count > 1

\* the fragment numbers held under the key before the call
HeldUnder(k) ==
    IF k \in DOMAIN fragment_buffer THEN DOMAIN fragment_buffer[k].fragments ELSE {}

\* the sentence with fragment number i under the key once s has arrived
LatestFragment(s, i) ==
    IF i = s.num THEN s ELSE fragment_buffer[<<s.count, s.seq, s.channel>>].fragments[i]

\* C29: a sentence with frag_count N > 1 is buffered under (N, seq_id,
\* channel), and the parser hands the ordered tuple of fragments 1..N to the
\* decoder, removes the entry and adds 1 to fragments_assembled exactly when
\* fragments 1..N are all present under the key; until then parse returns
\* nothing; for every sequence of sentences, with repeated and with
\* out-of-range fragment numbers.
C29_Reassembly ==
    [][FedFragment =>
        LET s == fed'[1]
            k == <<s.count, s.seq, s.channel>>
        IN IF 1..s.count \subseteq HeldUnder(k) \cup {s.num}
           THEN /\ handed' = [i \in 1..s.count |-> LatestFragment(s, i)]
                /\ k \notin DOMAIN fragment_buffer'
                /\ parser_stats'.fragments_assembled = parser_stats.fragments_assembled + 1
           ELSE /\ handed' = <<>>
                /\ k \in DOMAIN fragment_buffer'
                /\ DOMAIN fragment_buffer'[k].fragments = HeldUnder(k) \cup {s.num}
                /\ parser_stats'.fragments_assembled = parser_stats.fragments_assembled]_vars

\* parse is called with a valid sentence, so the sweep runs
Sweeps == calls' = calls + 1 /\ fed'[1].valid

\* the sweep of this call removes the entry under k
Swept(k) ==
    /\ ~(k = <<fed'[1].count, fed'[1].seq, fed'[1].channel>>
           /\ parser_stats'.fragments_assembled # parser_stats.fragments_assembled)
    /\ \/ k \notin DOMAIN fragment_buffer'
       \/ fragment_buffer'[k].timestamp # fragment_buffer[k].timestamp

\* more than T_frag seconds have passed since the last fragment for k
Inactive(k) == ptime - last_arrival[k] > fragment_timeout

\* C30: the sweep removes an incomplete entry iff more than T_frag seconds
\* have passed since the most recent fragment for its key arrived, and
\* fragments_expired increases by the number of fragments discarded; so an
\* entry holding only fragment 1 that has waited T_frag + 1 s is expired.
C30_FragmentExpiry ==
    [][Sweeps =>
        /\ \A k \in DOMAIN fragment_buffer : Swept(k) <=> Inactive(k)
        /\ parser_stats'.fragments_expired =
              parser_stats.fragments_expired
                + fragments_held({k \in DOMAIN fragment_buffer : Swept(k)})]_vars

(***************************************************************************)
(* Claims about the control channel and the outbound event.                *)
(***************************************************************************)
\* the handler of w receives a frame
Receives(w) == frames' = frames + 1 /\ inbound'.ws = w

\* C31: for every admitted subscriber each inbound ping frame is answered
\* with one pong frame, and every other inbound frame (invalid JSON, an
\* object of another type, valid JSON that is not an object) produces no
\* reply and leaves the subscription open and a member of its pool.
C31_ControlChannel ==
    [][\A w \in WS : Receives(w) =>
          /\ pongs'[w] = pongs[w] + (IF inbound'.kind = "ping" THEN 1 ELSE 0)
          /\ inbound'.kind # "ping" =>
                /\ hpc'[w] = "open"
                /\ hreq'[w] = hreq[w]
                /\ w \in PoolMembers(hreq[w].pool)']_vars

\* C32: in every track event built by broadcast_track_update a field absent
\* from the source message (lat, lon, speed, course, heading, name, imo,
\* callsign, shiptype) or an absent watchlist match is omitted from the
\* event, and no field of the event is present with a null value.
C32_AbsentFieldsOmitted ==
    track_event # NoEvent =>
        /\ \A k \in OptionalKeys \ track_event.keys : k \notin DOMAIN track_event.event
        /\ ~track_event.match => "watchlist" \notin DOMAIN track_event.event
        /\ \A k \in DOMAIN track_event.event : track_event.event[k] # "null"

(***************************************************************************)
(* Claims about the pushes to the provider.                                *)
(***************************************************************************)
\* check_message is called and returns
Looked ==
    \/ lookup' # lookup
    \/ \E i \in DOMAIN scheduled \cap DOMAIN scheduled' :
          scheduled[i].pc # "pending" /\ scheduled'[i].pc = "pending"

\* a scheduled push ends, well or not
PushEnds ==
    \E i \in DOMAIN scheduled \cap DOMAIN scheduled' :
        scheduled[i].pc = "pending" /\ scheduled'[i].pc # "pending"

\* C33: when the registry has the message's IMO under list L and no entry
\* for its MMSI, the match has matched_by = "imo" and list_id = L and exactly
\* one push (update by IMO) is scheduled for the message; a failing push is
\* swallowed and changes neither the match nor the fan-out; no push is
\* scheduled when the match is by MMSI.
C33_ImoFallbackPush ==
    /\ [][Looked =>
            /\ (/\ lookup'.mmsi # "none"
                /\ lookup'.mmsi \notin DOMAIN mmsi_cache
                /\ lookup'.imo \in DOMAIN imo_cache)
               => /\ lookup'.match.matched_by = "imo"
                  /\ lookup'.match.list_id = imo_cache[lookup'.imo]
                  /\ scheduled' = <<[imo |-> lookup'.imo, mmsi |-> lookup'.mmsi,
                                     pc |-> "pending"]>>
            /\ lookup'.match.matched_by = "mmsi" => scheduled' = <<>>]_vars
    /\ [][PushEnds => lookup' = lookup /\ serverVars' = serverVars]_vars

\* a message matched by IMO only, whose push has failed
C33_Witness ==
    /\ lookup.match.matched_by = "imo"
    /\ lookup.mmsi # "none"
    /\ Len(scheduled) = 1 /\ scheduled[1].pc = "failed"

(***************************************************************************)
(* Claims about subscribers joining and leaving during a broadcast.        *)
(***************************************************************************)
\* how many times x occurs in s
Occurrences(x, s) == Cardinality({i \in 1..Len(s) : s[i] = x})

\* some pool gains or loses a subscriber
MembershipChanges == \E pool \in Pools : PoolMembers(pool)' # PoolMembers(pool)

\* the broadcast of message m to a pool has started and its gather has not
\* returned
InProgress(m) == tpc[m] \in Pools

\* a subscriber that entered the pool being served after the snapshot
JoinedDuring(m, w) ==
    /\ w \in PoolMembers(tpc[m])
    /\ ~InSeq(m, sendq[w])
    /\ ~InSeq(m, delivered[w])

\* C34: a subscriber connecting to or leaving a pool while an event is
\* being broadcast to it neither aborts nor restarts the broadcast: every
\* subscriber of the pool at the start is sent the event, a started send is
\* ended only by its own delivery or by the failure of its own websocket,
\* no subscriber is sent the event twice, and the broadcast returns after
\* every one of its sends has ended.
C34_BroadcastSurvivesChurn ==
    /\ [][\A m \in Msgs : \A pool \in {"all", "watchlist"} :
             BroadcastTo(m, pool) =>
                 \A w \in PoolMembers(pool) : InSeq(m, sendq'[w])]_vars
    /\ [][\A m \in Msgs :
             (InProgress(m) /\ MembershipChanges) =>
                 /\ tpc'[m] = tpc[m]
                 /\ delivered' = delivered
                 /\ \A w \in WS :
                       InSeq(m, sendq[w]) =>
                          \/ InSeq(m, sendq'[w])
                          \/ health[w] = "broken" /\ Head(sendq[w]) = m]_vars
    /\ [][\A m \in Msgs : \A w \in WS :
             (InSeq(m, sendq[w]) /\ ~InSeq(m, sendq'[w])) =>
                 \/ health[w] = "ok" /\ delivered'[w] = Append(delivered[w], m)
                 \/ health[w] = "broken"]_vars
    /\ [](\A m \in Msgs : \A w \in WS :
             Occurrences(m, sendq[w]) + Occurrences(m, delivered[w]) <= 1)
    /\ [][\A m \in Msgs :
             (InProgress(m) /\ tpc'[m] # tpc[m]) => PendingSends(m) = {}]_vars

\* during the broadcast of a message to the pool all a subscriber has joined
\* the pool while the send to a subscriber of the snapshot is pending
C34_Witness ==
    \E m \in Msgs : \E w1, w2 \in WS :
        /\ tpc[m] = "all"
        /\ InSeq(m, sendq[w1]) /\ health[w1] = "ok"
        /\ JoinedDuring(m, w2)

(***************************************************************************)
(* Claims about what a refused connect() leaves behind.                    *)
(***************************************************************************)
\* connect() returns False to the handler of w
Rejected(w) ==
    /\ hpc[w] = "new"
    /\ hpc'[w] \in {"refused_ip_cap", "refused_rate", "refused_pool"}

\* C35: a connect() that is refused, by the per-address cap, the rate limit
\* or the capacity of the pool, leaves the pools, the per-address connection
\* sets and the attempts of the address that are inside the rate window as
\* they were: it takes none of the address's rate-limit slots.
C35_RejectionKeepsAdmissionState ==
    [][\A w \in WS :
          Rejected(w) =>
              /\ \A pool \in Pools : PoolMembers(pool)' = PoolMembers(pool)
              /\ ip_connections' = ip_connections
              /\ websocket_ip' = websocket_ip
              /\ PrunedAttempts(ClientIp(w))' = PrunedAttempts(ClientIp(w))]_vars

\* the same for the refusals made inside _check_rate_limit
C35_RateRefusalsKeepState ==
    [][\A w \in WS :
          (hpc[w] = "new" /\ hpc'[w] \in {"refused_ip_cap", "refused_rate"}) =>
              /\ \A pool \in Pools : PoolMembers(pool)' = PoolMembers(pool)
              /\ ip_connections' = ip_connections
              /\ websocket_ip' = websocket_ip
              /\ PrunedAttempts(ClientIp(w))' = PrunedAttempts(ClientIp(w))]_vars

(***************************************************************************)
(* Claims about the agreement of the pools and the per-address tracking.   *)
(***************************************************************************)
\* the pools that hold websocket w
PoolsOf(w) == {pool \in Pools : w \in PoolMembers(pool)}

\* no connect() is suspended in websocket.accept()
NoConnectInFlight == \A w \in WS : hpc[w] # "accepting"

\* disconnect runs for a websocket that is in no pool and is not tracked
DisconnectsAgain(w) ==
    /\ hpc[w] = "open" /\ hpc'[w] = "closed"
    /\ PoolsOf(w) = {}
    /\ websocket_ip[w] = NoIp

\* a websocket is in a pool iff it is tracked under its address, and it is
\* in at most one pool
TrackingAgrees ==
    \A w \in WS :
        /\ (PoolsOf(w) # {}) <=> (websocket_ip[w] # NoIp)
        /\ websocket_ip[w] # NoIp =>
              /\ websocket_ip[w] \in ip_entries
              /\ w \in ip_connections[websocket_ip[w]]
        /\ \A ip \in IPs : w \in ip_connections[ip] => websocket_ip[w] = ip
        /\ Cardinality(PoolsOf(w)) <= 1

\* a second disconnect of a websocket changes nothing
SecondDisconnectIdle ==
    [][\A w \in WS : DisconnectsAgain(w) => UNCHANGED connVars]_vars

\* C36: between the calls of connect, disconnect and broadcast a websocket
\* is in a pool iff it is recorded in _websocket_ip and in the connection
\* set of its address, it is in at most one pool, no address keeps an empty
\* connection set, and the disconnect of a websocket that was already
\* disconnected changes nothing.
C36_TrackingConsistent ==
    /\ [](NoConnectInFlight =>
             /\ TrackingAgrees
             /\ \A ip \in ip_entries : ip_connections[ip] # {})
    /\ SecondDisconnectIdle

\* the same without the clause on empty connection sets
C36_TrackingAgrees == []TrackingAgrees /\ SecondDisconnectIdle

\* a websocket dropped by a failed send whose handler then runs disconnect
C36_SecondDisconnect ==
    \E w \in WS : hpc[w] = "open" /\ health[w] = "broken" /\ PoolsOf(w) = {}

(***************************************************************************)
(* Claims about the source adapter's reconnection.                         *)
(***************************************************************************)
\* the upstream has closed the connection the adapter holds
UpstreamClosed == src_websocket \in {"closed_ok", "closed_error"}

\* C37: once the upstream has closed the established connection of a
\* running adapter with auto-reconnect, normally or not, the adapter
\* eventually is not connected and makes a new connection attempt.
C37_ReconnectsAfterClose ==
    (src_reconnect /\ src_running /\ UpstreamClosed)
        ~> (~src_connected /\ src_pc = "connecting")

\* the same for a closure that makes the receive iteration raise
C37_ReconnectsAfterError ==
    (src_reconnect /\ src_running /\ src_websocket = "closed_error")
        ~> (~src_connected /\ src_pc = "connecting")

\* C38: with reconnect_max_attempts = N > 0 the adapter never makes more
\* than N failed connection attempts in a row, the attempt count is zero
\* after every successful connect, and with reconnect_max_attempts = 0 and
\* auto-reconnect it never stops because of failed attempts.
C38_BoundedAttempts ==
    /\ [](src_max_attempts > 0 => src_failed <= src_max_attempts)
    /\ [][(~src_connected /\ src_connected') => src_reconnect_attempts' = 0]_vars
    /\ [](src_max_attempts = 0 /\ src_reconnect /\ src_running => src_pc # "done")

\* the same with one more failed attempt allowed
C38_BoundedAttemptsPlusOne ==
    /\ [](src_max_attempts > 0 => src_failed <= src_max_attempts + 1)
    /\ [][(~src_connected /\ src_connected') => src_reconnect_attempts' = 0]_vars
    /\ [](src_max_attempts = 0 /\ src_reconnect /\ src_running => src_pc # "done")

(***************************************************************************)
(* Claims about the durable store and a restart.                           *)
(***************************************************************************)
\* some sync_from_api call has succeeded and none has failed or is running
OnlySuccessfulSyncs ==
    /\ \A s \in Syncs : spc[s] \in {"idle", "synced"}
    /\ \E s \in Syncs : spc[s] = "synced"

\* a step of load_from_database
Loads == lpc' # lpc

\* C39: after any sequence of successful sync_from_api calls, including one
\* whose data no longer has a vessel or a list of an earlier one,
\* load_from_database rebuilds the mmsi_cache, imo_cache and lists_cache
\* that the last sync published.
C39_LoadRebuildsIndexes ==
    [][(OnlySuccessfulSyncs /\ Loads) =>
          /\ mmsi_cache' = mmsi_cache
          /\ imo_cache' = imo_cache
          /\ lists_cache' = lists_cache]_vars

\* the same after a single successful sync
C39_LoadAfterOneSync ==
    [][(/\ OnlySuccessfulSyncs
        /\ Cardinality({s \in Syncs : spc[s] = "synced"}) = 1
        /\ Loads) =>
          /\ mmsi_cache' = mmsi_cache
          /\ imo_cache' = imo_cache
          /\ lists_cache' = lists_cache]_vars

(***************************************************************************)
(* Claims about the detection record.                                      *)
(***************************************************************************)
\* the fan-out of message m has begun or is over
FannedOut(m) == tpc[m] \in Pools \cup {"done"}

\* the detection of a matched message is built from the message and is
\* handed to the store before the fan-out, which a failed write does not
\* stop
DetectionBeforeFanOut ==
    /\ [](\A m \in Msgs :
             /\ detections[m].built => msgs[m].match /\ detections[m].raw_data = msgs[m]
             /\ (FannedOut(m) /\ msgs[m].match) => detections[m].built)
    /\ [][\A m \in Msgs :
             (~write_failed[m] /\ write_failed'[m]) => FannedOut(m)']_vars

\* C40: the detection record of a matched message is built from the
\* message, its latitude and longitude are the message's lat and lon when
\* the message has them, the write is attempted before the fan-out, and a
\* failed write does not stop the fan-out.
C40_DetectionRecord ==
    /\ [](\A m \in Msgs :
             (detections[m].built /\ msgs[m].has_pos) =>
                 /\ detections[m].latitude = Some(msgs[m].lat)
                 /\ detections[m].longitude = Some(msgs[m].lon))
    /\ DetectionBeforeFanOut

\* the same without the position
C40_WriteBeforeFanOut == DetectionBeforeFanOut /\ [](\A m \in Msgs : tpc[m] = "saving" => detections[m].built)

====
